---- MODULE Spec2Model ----
(***************************************************************************)
(* Half-edge topology of a subdivision mesh (SubdivMesh and its Topology   *)
(* slots, kernels/common/scene_subdiv_mesh.cpp): the buffers and their     *)
(* modified flags, the crease/hole registries, the face-index layout, the  *)
(* Builder (calculateHalfEdges), the Updater (updateHalfEdges) and the     *)
(* per-commit coordinator (initializeHalfEdgeStructures).                  *)
(*                                                                         *)
(* Arrays are 0-based functions, as in the source.  Real numbers (crease   *)
(* weights, levels) are integers; inf stands for float(inf).  Vertex ids   *)
(* are IndexBits wide instead of 32 bits, so that the packed edge key of   *)
(* 2*IndexBits bits fits the integers of the model checker.                *)
(***************************************************************************)
EXTENDS Integers, Sequences, FiniteSets, TLC

\* ------------------------------------------------------------------ bounds

\* number of API calls (buffer updates, mode changes) explored per behaviour
MaxOps == 1

\* width of a vertex id (32 in the source)
IndexBits == 5

\* number of tasks the link pass of the Builder is split into, at most
MaxTasks == 3

\* ------------------------------------------------------- program constants

\* float(inf)
inf == 1000000

\* const size_t blockSize = 4096
blockSize == 4096

\* tessellationRate(2.0f)
InitialTessellationRate == 2

\* ----------------------------------------------------------------- helpers

Range0(n) == 0 .. (n - 1)

Min2(a, b) == IF a < b THEN a ELSE b
Max2(a, b) == IF a < b THEN b ELSE a

\* a function as an explicit table of its values (the same function)
Table(f) == f @@ <<>>

\* a 0-based array from a literal sequence
Arr(s) == Table([i \in Range0(Len(s)) |-> s[i + 1]])

ArrLen(a) == Cardinality(DOMAIN a)

KeyRadix == 2 ^ IndexBits

\* pair64(x,y): the larger id in the high half, the smaller in the low half
pair64(x, y) == Max2(x, y) * KeyRadix + Min2(x, y)

\* std::numeric_limits<uint64_t>::max(), the key of the half-edges of a hole
HoleKey == KeyRadix * KeyRadix - 1

Slots == {0, 1}

Modes == {"SMOOTH_BOUNDARY", "PIN_CORNERS", "PIN_BOUNDARY", "PIN_ALL"}

Scenes == {"null", "static", "dynamic"}


\* --------------------------------------------------------------- HalfEdge

\* a HalfEdge as the array holds it before any build has written it
DefaultHalfEdge ==
  [vtx_index |-> 0, next_half_edge_ofs |-> 0, prev_half_edge_ofs |-> 0,
   opposite_half_edge_ofs |-> 0, edge_crease_weight |-> 0,
   vertex_crease_weight |-> 0, edge_level |-> 0,
   patch_type |-> "COMPLEX_PATCH", vertex_type |-> "REGULAR_VERTEX"]

hasOpposite(he, i) == he[i].opposite_half_edge_ofs # 0
next(he, i) == i + he[i].next_half_edge_ofs
prev(he, i) == i + he[i].prev_half_edge_ofs
opposite(he, i) == i + he[i].opposite_half_edge_ofs
rotate(he, i) == next(he, opposite(he, i))

\* HalfEdge::getEdge(): the key of (start vertex, end vertex)
getEdge(he, i) == pair64(he[i].vtx_index, he[next(he, i)].vtx_index)

\* HalfEdge::isCorner()
isCorner(he, i) == ~hasOpposite(he, i) /\ ~hasOpposite(he, prev(he, i))

\* HalfEdge::vertexHasBorder(): walk the ring of the vertex by rotate()
RECURSIVE RingHasBorder(_, _, _, _)
RingHasBorder(he, this, p, fuel) ==
  IF ~hasOpposite(he, p) THEN TRUE
  ELSE LET q == rotate(he, p)
       IN  IF q = this \/ fuel = 0 THEN FALSE
           ELSE RingHasBorder(he, this, q, fuel - 1)

vertexHasBorder(he, i) == RingHasBorder(he, i, i, ArrLen(he))

\* the number of half-edges of the face loop through i (at most 5 are counted)
RECURSIVE LoopLength(_, _, _, _)
LoopLength(he, this, p, n) ==
  IF next(he, p) = this \/ n >= 5 THEN n
  ELSE LoopLength(he, this, next(he, p), n + 1)

isQuadFace(he, i) == LoopLength(he, i, i, 1) = 4

\* the other side of the border around the vertex of this
RECURSIVE RotateToBorder(_, _, _)
RotateToBorder(he, p, fuel) ==
  IF hasOpposite(he, p) /\ fuel > 0
  THEN RotateToBorder(he, rotate(he, p), fuel - 1)
  ELSE p

PatchRank(t) ==
  CASE t = "BILINEAR_PATCH"       -> 0
    [] t = "REGULAR_QUAD_PATCH"   -> 1
    [] t = "IRREGULAR_QUAD_PATCH" -> 2
    [] t = "COMPLEX_PATCH"        -> 3

PatchMax(a, b) == IF PatchRank(a) < PatchRank(b) THEN b ELSE a

\* HalfEdge::vertexType(): the patch type the ring of one vertex allows
RECURSIVE VertexRing(_, _, _, _, _, _)
VertexRing(he, this, p, face_valence, hasBorder, fuel) ==
  IF hasOpposite(he, p) /\ he[p].edge_crease_weight > 0 THEN "COMPLEX_PATCH"
  ELSE IF ~isQuadFace(he, p) THEN "COMPLEX_PATCH"
  ELSE
    LET pp   == prev(he, p)
        open == ~hasOpposite(he, pp)
        q    == IF open THEN RotateToBorder(he, this, ArrLen(he))
                        ELSE opposite(he, pp)
        fv   == face_valence + 1 + (IF open THEN 1 ELSE 0)
        hb   == hasBorder \/ open
        vcw  == he[this].vertex_crease_weight
    IN  IF q # this /\ fuel > 0
        THEN VertexRing(he, this, q, fv, hb, fuel - 1)
        ELSE IF fv = 2 /\ hb
             THEN (IF vcw = 0 THEN "REGULAR_QUAD_PATCH"
                   ELSE IF vcw = inf THEN "BILINEAR_PATCH"
                   ELSE "COMPLEX_PATCH")
             ELSE IF vcw # 0 THEN "COMPLEX_PATCH"
             ELSE IF fv = 3 /\ hb THEN "REGULAR_QUAD_PATCH"
             ELSE IF fv = 4 /\ ~hb THEN "REGULAR_QUAD_PATCH"
             ELSE "IRREGULAR_QUAD_PATCH"

vertexType(he, i) == VertexRing(he, i, i, 0, FALSE, 2 * ArrLen(he))

\* HalfEdge::bilinearVertex()
bilinearVertex(he, i) ==
  he[i].vertex_crease_weight = inf /\ he[i].edge_crease_weight = inf

\* HalfEdge::patchType(): complex unless the face is a quad; else the worst
\* of its four vertex types, or bilinear when all four corners are pinned
patchType(he, i) ==
  IF ~isQuadFace(he, i) THEN "COMPLEX_PATCH"
  ELSE
    LET p0 == i
        p1 == next(he, p0)
        p2 == next(he, p1)
        p3 == next(he, p2)
        ps == {p0, p1, p2, p3}
        worst == PatchMax(PatchMax(vertexType(he, p0), vertexType(he, p1)),
                          PatchMax(vertexType(he, p2), vertexType(he, p3)))
        ret == PatchMax("REGULAR_QUAD_PATCH", worst)
    IN  IF \A p \in ps : bilinearVertex(he, p) THEN "BILINEAR_PATCH" ELSE ret

\* HalfEdge::valid(vertices): every vertex of the face loop has a finite
\* position; bad is the set of vertex ids whose position is not finite
RECURSIVE LoopVertices(_, _, _, _)
LoopVertices(he, this, p, fuel) ==
  {he[p].vtx_index} \cup
    (IF next(he, p) = this \/ fuel = 0 THEN {}
     ELSE LoopVertices(he, this, next(he, p), fuel - 1))

valid(he, i, bad) == LoopVertices(he, i, i, ArrLen(he)) \cap bad = {}


\* -------------------------------------------------------------- registries

\* parallel_map::init(keys,values): the mapping of one crease list
EdgeCreaseMapOf(creases, weights) ==
  {[key |-> pair64(creases[i][1], creases[i][2]), value |-> weights[i]] :
     i \in DOMAIN creases}

VertexCreaseMapOf(creases, weights) ==
  {[key |-> creases[i], value |-> weights[i]] : i \in DOMAIN creases}

\* parallel_set::init(list)
HoleSetOf(list) == {list[i] : i \in DOMAIN list}

\* parallel_map::lookup(key,def)
lookup(map, key, def) ==
  IF \E e \in map : e.key = key
  THEN (CHOOSE e \in map : e.key = key).value
  ELSE def

\* parallel_prefix_sum(faceVertices,faceStartEdge,numFaces,0,plus)
RECURSIVE SumTo(_, _)
SumTo(fv, f) == IF f = 0 THEN 0 ELSE SumTo(fv, f - 1) + fv[f - 1]

PrefixSum(fv) == Table([f \in DOMAIN fv |-> SumTo(fv, f)])

\* SubdivMesh::getEdgeLevel(i): the level buffer, or the mesh-wide rate
getEdgeLevel(M, i) ==
  IF ArrLen(M.levels) > 0 THEN M.levels[i] ELSE M.tessellationRate

\* ----------------------------------------------------------------- Builder

\* The loops below thread the half-edge array through their steps.  Each step
\* first tests that the position it is about to write lies in the array: the
\* layout guarantees it, and the test makes the array of the previous step a
\* value before the next step is entered.

\* NewHalfEdge with the wrap-around of the last corner off by one
NewHalfEdge_ShortWrap(M, k, N, e, de) ==
  LET nextOfs == IF de = N - 1 THEN -(N - 2) ELSE 1
      prevOfs == IF de = 0 THEN N - 1 ELSE -1
      startVertex  == M.vertexIndices[k][e + de]
      startVertex0 == M.vertexIndices[0][e + de]
      endVertex0   == M.vertexIndices[0][e + de + nextOfs]
      key0 == pair64(startVertex0, endVertex0)
  IN  [vtx_index              |-> startVertex,
       next_half_edge_ofs     |-> nextOfs,
       prev_half_edge_ofs     |-> prevOfs,
       opposite_half_edge_ofs |-> 0,
       edge_crease_weight     |-> lookup(M.edgeCreaseMap, key0, 0),
       vertex_crease_weight   |-> lookup(M.vertexCreaseMap, startVertex0, 0),
       edge_level             |-> getEdgeLevel(M, e + de),
       patch_type             |-> "COMPLEX_PATCH",
       vertex_type            |-> "REGULAR_VERTEX"]

\* NewHalfEdge that looks creases up with the slot's own vertex ids
NewHalfEdge_OwnIds(M, k, N, e, de) ==
  LET nextOfs == IF de = N - 1 THEN -(N - 1) ELSE 1
      prevOfs == IF de = 0 THEN N - 1 ELSE -1
      startVertex == M.vertexIndices[k][e + de]
      endVertex   == M.vertexIndices[k][e + de + nextOfs]
      key == pair64(startVertex, endVertex)
  IN  [vtx_index              |-> startVertex,
       next_half_edge_ofs     |-> nextOfs,
       prev_half_edge_ofs     |-> prevOfs,
       opposite_half_edge_ofs |-> 0,
       edge_crease_weight     |-> lookup(M.edgeCreaseMap, key, 0),
       vertex_crease_weight   |-> lookup(M.vertexCreaseMap, startVertex, 0),
       edge_level             |-> getEdgeLevel(M, e + de),
       patch_type             |-> "COMPLEX_PATCH",
       vertex_type            |-> "REGULAR_VERTEX"]

\* one corner of one face, as the first loop of calculateHalfEdges writes it
NewHalfEdge(M, k, N, e, de) ==
  LET nextOfs == IF de = N - 1 THEN -(N - 1) ELSE 1
      prevOfs == IF de = 0 THEN N - 1 ELSE -1
      startVertex  == M.vertexIndices[k][e + de]
      startVertex0 == M.vertexIndices[0][e + de]
      endVertex0   == M.vertexIndices[0][e + de + nextOfs]
      key0 == pair64(startVertex0, endVertex0)
  IN  [vtx_index              |-> startVertex,
       next_half_edge_ofs     |-> nextOfs,
       prev_half_edge_ofs     |-> prevOfs,
       opposite_half_edge_ofs |-> 0,
       edge_crease_weight     |-> lookup(M.edgeCreaseMap, key0, 0),
       vertex_crease_weight   |-> lookup(M.vertexCreaseMap, startVertex0, 0),
       edge_level             |-> getEdgeLevel(M, e + de),
       patch_type             |-> "COMPLEX_PATCH",
       vertex_type            |-> "REGULAR_VERTEX"]

\* NewKey that gives hole faces their real key
NewKey_IgnoresHoles(M, k, f, N, e, de) ==
  LET nextOfs == IF de = N - 1 THEN -(N - 1) ELSE 1
  IN  pair64(M.vertexIndices[k][e + de],
             M.vertexIndices[k][e + de + nextOfs])

\* the key stored in halfEdges1 for one corner
NewKey(M, k, f, N, e, de) ==
  LET nextOfs == IF de = N - 1 THEN -(N - 1) ELSE 1
      key == pair64(M.vertexIndices[k][e + de],
                    M.vertexIndices[k][e + de + nextOfs])
  IN  IF f \in M.holeSet THEN HoleKey ELSE key

\* CreateHalfEdges that does not reset the opposite link
RECURSIVE CreateHalfEdges_KeepsOpposite(_, _, _, _)
CreateHalfEdges_KeepsOpposite(M, k, he, f) ==
  IF f >= ArrLen(M.faceVertices) \/ M.faceStartEdge[f] \notin DOMAIN he
  THEN he
  ELSE
    LET N == M.faceVertices[f]
        e == M.faceStartEdge[f]
        he1 == Table([i \in DOMAIN he |->
                  IF i >= e /\ i < e + N
                  THEN [NewHalfEdge(M, k, N, e, i - e) EXCEPT
                          !.opposite_half_edge_ofs =
                             he[i].opposite_half_edge_ofs]
                  ELSE he[i]])
    IN  CreateHalfEdges_KeepsOpposite(M, k, he1, f + 1)

\* create all half edges: faces f .. numFaces-1 written over he
RECURSIVE CreateHalfEdges(_, _, _, _)
CreateHalfEdges(M, k, he, f) ==
  IF f >= ArrLen(M.faceVertices) \/ M.faceStartEdge[f] \notin DOMAIN he
  THEN he
  ELSE
    LET N == M.faceVertices[f]
        e == M.faceStartEdge[f]
        he1 == Table([i \in DOMAIN he |->
                  IF i >= e /\ i < e + N THEN NewHalfEdge(M, k, N, e, i - e)
                  ELSE he[i]])
    IN  CreateHalfEdges(M, k, he1, f + 1)

RECURSIVE CreateKeys(_, _, _, _)
CreateKeys(M, k, keys, f) ==
  IF f >= ArrLen(M.faceVertices) THEN keys
  ELSE
    LET N == M.faceVertices[f]
        e == M.faceStartEdge[f]
        keys1 == Table([i \in DOMAIN keys |->
                    IF i >= e /\ i < e + N THEN NewKey(M, k, f, N, e, i - e)
                    ELSE keys[i]])
    IN  CreateKeys(M, k, keys1, f + 1)

\* radix_sort_u64 of the first n (key, half-edge) pairs: position -> half-edge,
\* ascending by key, equal keys in their original order
SortedHalfEdges(keys, n) ==
  LET before(j, i) == keys[j] < keys[i] \/ (keys[j] = keys[i] /\ j < i)
      rank == Table([i \in Range0(n) |->
                       Cardinality({j \in Range0(n) : before(j, i)})])
  IN  Table([p \in Range0(n) |-> CHOOSE i \in Range0(n) : rank[i] = p])

\* the number of consecutive sorted entries from e on that share e's key
RECURSIVE RunLength(_, _, _, _, _)
RunLength(keys, S, e, N, n) ==
  IF e + N < n /\ keys[S[e + N]] = keys[S[e]]
  THEN RunLength(keys, S, e, N + 1, n)
  ELSE N

\* PinNonManifold that pins the half-edges of the run only, not their next
RECURSIVE PinNonManifold_RunOnly(_, _, _, _, _)
PinNonManifold_RunOnly(he, S, e, i, N) ==
  IF i >= N \/ S[e + i] \notin DOMAIN he THEN he
  ELSE
    LET a == S[e + i]
        he1 == [he EXCEPT ![a].vertex_crease_weight = inf,
                          ![a].vertex_type = "NON_MANIFOLD_EDGE_VERTEX",
                          ![a].edge_crease_weight = inf]
    IN  PinNonManifold_RunOnly(he1, S, e, i + 1, N)

\* PinNonManifold that also takes the opposite from the next half-edge
RECURSIVE PinNonManifold_UnlinksNext(_, _, _, _, _)
PinNonManifold_UnlinksNext(he, S, e, i, N) ==
  IF i >= N \/ S[e + i] \notin DOMAIN he THEN he
  ELSE
    LET a == S[e + i]
        he1 == [he EXCEPT ![a].vertex_crease_weight = inf,
                          ![a].vertex_type = "NON_MANIFOLD_EDGE_VERTEX",
                          ![a].edge_crease_weight = inf]
        b == next(he1, a)
        he2 == [he1 EXCEPT ![b].vertex_crease_weight = inf,
                           ![b].vertex_type = "NON_MANIFOLD_EDGE_VERTEX",
                           ![b].edge_crease_weight = inf,
                           ![b].opposite_half_edge_ofs = 0]
    IN  PinNonManifold_UnlinksNext(he2, S, e, i + 1, N)

\* the non-manifold case: entries i .. N-1 of the run and their next half-edges
RECURSIVE PinNonManifold(_, _, _, _, _)
PinNonManifold(he, S, e, i, N) ==
  IF i >= N \/ S[e + i] \notin DOMAIN he THEN he
  ELSE
    LET a == S[e + i]
        he1 == [he EXCEPT ![a].vertex_crease_weight = inf,
                          ![a].vertex_type = "NON_MANIFOLD_EDGE_VERTEX",
                          ![a].edge_crease_weight = inf]
        b == next(he1, a)
        he2 == [he1 EXCEPT ![b].vertex_crease_weight = inf,
                           ![b].vertex_type = "NON_MANIFOLD_EDGE_VERTEX",
                           ![b].edge_crease_weight = inf]
    IN  PinNonManifold(he2, S, e, i + 1, N)

\* LinkRun without the crease on a winding-order mismatch
LinkRun_NoWindingCrease(he, S, e, N) ==
  IF N = 1 THEN [he EXCEPT ![S[e]].edge_crease_weight = inf]
  ELSE IF N = 2 THEN
    LET a == S[e]
        b == S[e + 1]
    IN  IF he[next(he, a)].vtx_index # he[b].vtx_index
        THEN he
        ELSE [he EXCEPT ![a].opposite_half_edge_ofs = b - a,
                        ![b].opposite_half_edge_ofs = a - b]
  ELSE PinNonManifold(he, S, e, 0, N)

\* LinkRun that sets the opposite of the first half-edge of a pair only
LinkRun_OneWay(he, S, e, N) ==
  IF N = 1 THEN [he EXCEPT ![S[e]].edge_crease_weight = inf]
  ELSE IF N = 2 THEN
    LET a == S[e]
        b == S[e + 1]
    IN  IF he[next(he, a)].vtx_index # he[b].vtx_index
        THEN [he EXCEPT ![a].edge_crease_weight = inf,
                        ![b].edge_crease_weight = inf]
        ELSE [he EXCEPT ![a].opposite_half_edge_ofs = b - a]
  ELSE PinNonManifold(he, S, e, 0, N)

\* LinkRun that links every pair without comparing the winding
LinkRun_AlwaysLinks(he, S, e, N) ==
  IF N = 1 THEN [he EXCEPT ![S[e]].edge_crease_weight = inf]
  ELSE IF N = 2 THEN
    LET a == S[e]
        b == S[e + 1]
    IN  [he EXCEPT ![a].opposite_half_edge_ofs = b - a,
                   ![b].opposite_half_edge_ofs = a - b]
  ELSE PinNonManifold(he, S, e, 0, N)

\* LinkRun that treats a creased edge as a border between its two faces
LinkRun_CreaseSevers(he, S, e, N) ==
  IF N = 1 THEN [he EXCEPT ![S[e]].edge_crease_weight = inf]
  ELSE IF N = 2 THEN
    LET a == S[e]
        b == S[e + 1]
    IN  IF he[next(he, a)].vtx_index # he[b].vtx_index
        THEN [he EXCEPT ![a].edge_crease_weight = inf,
                        ![b].edge_crease_weight = inf]
        ELSE IF he[a].edge_crease_weight # 0 \/ he[b].edge_crease_weight # 0
        THEN he
        ELSE [he EXCEPT ![a].opposite_half_edge_ofs = b - a,
                        ![b].opposite_half_edge_ofs = a - b]
  ELSE PinNonManifold(he, S, e, 0, N)

\* one run of N half-edges sharing a key, starting at sorted position e
LinkRun(he, S, e, N) ==
  IF N = 1 THEN [he EXCEPT ![S[e]].edge_crease_weight = inf]
  ELSE IF N = 2 THEN
    LET a == S[e]
        b == S[e + 1]
    IN  IF he[next(he, a)].vtx_index # he[b].vtx_index
        THEN [he EXCEPT ![a].edge_crease_weight = inf,
                        ![b].edge_crease_weight = inf]
        ELSE [he EXCEPT ![a].opposite_half_edge_ofs = b - a,
                        ![b].opposite_half_edge_ofs = a - b]
  ELSE PinNonManifold(he, S, e, 0, N)

\* the position at which the task of range [rb,re) starts: past a run that
\* began before rb
RECURSIVE SkipRun(_, _, _, _, _)
SkipRun(keys, S, e, re, key) ==
  IF e < re /\ keys[S[e]] = key THEN SkipRun(keys, S, e + 1, re, key) ELSE e

\* LinkStart that starts at the first position of the range whatever its key
LinkStart_NoSkip(keys, S, rb, re) == rb

LinkStart(keys, S, rb, re) ==
  IF rb # 0 /\ keys[S[rb]] = keys[S[rb - 1]]
  THEN SkipRun(keys, S, rb, re, keys[S[rb]])
  ELSE rb

\* process all runs that start in [e,re)
RECURSIVE LinkRuns(_, _, _, _, _, _)
LinkRuns(he, keys, S, e, re, n) ==
  IF e >= re \/ S[e] \notin DOMAIN he THEN he
  ELSE IF keys[S[e]] = HoleKey THEN he
  ELSE LET N == RunLength(keys, S, e, 1, n)
       IN  LinkRuns(LinkRun(he, S, e, N), keys, S, e + N, re, n)

\* link all adjacent pairs of edges: the tasks of parallel_for over [0,n)
RECURSIVE LinkHalfEdges(_, _, _, _, _)
LinkHalfEdges(he, keys, S, rb, n) ==
  IF rb >= n THEN he
  ELSE
    LET re == Min2(rb + blockSize, n)
        he1 == LinkRuns(he, keys, S, LinkStart(keys, S, rb, re), re, n)
    IN  LinkHalfEdges(he1, keys, S, re, n)

\* pin some edges and vertices of one half-edge, by the subdivision mode
PinHalfEdge(he, mode, i) ==
  IF mode = "PIN_CORNERS" /\ isCorner(he, i)
  THEN [he EXCEPT ![i].vertex_crease_weight = inf]
  ELSE IF mode = "PIN_BOUNDARY" /\ vertexHasBorder(he, i)
  THEN [he EXCEPT ![i].vertex_crease_weight = inf]
  ELSE IF mode = "PIN_ALL"
  THEN [he EXCEPT ![i].edge_crease_weight = inf,
                  ![i].vertex_crease_weight = inf]
  ELSE he

RECURSIVE PinFace(_, _, _, _, _)
PinFace(he, mode, e, i, N) ==
  IF i >= N \/ e + i \notin DOMAIN he THEN he
  ELSE PinFace(PinHalfEdge(he, mode, e + i), mode, e, i + 1, N)

\* set subdivision mode and calculate patch types: faces f .. numFaces-1
RECURSIVE ClassifyFaces(_, _, _, _)
ClassifyFaces(M, k, he, f) ==
  IF f >= ArrLen(M.faceVertices) \/ M.faceStartEdge[f] \notin DOMAIN he
  THEN he
  ELSE
    LET N == M.faceVertices[f]
        e == M.faceStartEdge[f]
        he1 == PinFace(he, M.subdiv_mode[k], e, 0, N)
        patch_type == patchType(he1, e)
        he2 == Table([i \in DOMAIN he1 |->
                  IF i >= e /\ i < e + N
                  THEN [he1[i] EXCEPT !.patch_type = patch_type]
                  ELSE he1[i]])
    IN  ClassifyFaces(M, k, he2, f + 1)

\* Topology::calculateHalfEdges(): the half-edge array of slot k after a build
calculateHalfEdges(M, k, he) ==
  LET n == M.numHalfEdges
      created == CreateHalfEdges(M, k, he, 0)
      keys == CreateKeys(M, k, Table([i \in DOMAIN he |-> 0]), 0)
      S == SortedHalfEdges(keys, n)
      linked == LinkHalfEdges(created, keys, S, 0, n)
  IN  ClassifyFaces(M, k, linked, 0)

\* calculate if face is valid: mesh->invalidFace(f,t) for the geometry topology
FaceValidity(M, he) ==
  Table([f \in DOMAIN M.faceVertices |->
    Table([t \in DOMAIN M.vertices |->
       ~valid(he, M.faceStartEdge[f], M.vertices[t]) \/ f \in M.holeSet])])


\* ------------------------------------------------------------ verification

\* VerifyRun that accepts the vertex id numVertices itself
RECURSIVE VerifyRun_OffByOne(_, _, _, _)
VerifyRun_OffByOne(idx, numVertices, j, end) ==
  IF j >= end THEN TRUE
  ELSE IF j >= ArrLen(idx) THEN FALSE
  ELSE IF idx[j] > numVertices THEN FALSE
  ELSE VerifyRun_OffByOne(idx, numVertices, j + 1, end)

\* the inner loop of Topology::verify over the positions j .. end-1 of a face
RECURSIVE VerifyRun(_, _, _, _)
VerifyRun(idx, numVertices, j, end) ==
  IF j >= end THEN TRUE
  ELSE IF j >= ArrLen(idx) THEN FALSE
  ELSE IF idx[j] >= numVertices THEN FALSE
  ELSE VerifyRun(idx, numVertices, j + 1, end)

\* the outer loop of Topology::verify from face i, whose run starts at ofs
RECURSIVE VerifyFaces(_, _, _, _, _)
VerifyFaces(fv, idx, numVertices, i, ofs) ==
  IF i >= ArrLen(fv) THEN TRUE
  ELSE IF ~VerifyRun(idx, numVertices, ofs, ofs + fv[i]) THEN FALSE
  ELSE VerifyFaces(fv, idx, numVertices, i + 1, ofs + fv[i])

\* SubdivMesh::Topology::verify(numVertices) of the slot with index buffer idx
TopologyVerify(fv, idx, numVertices) == VerifyFaces(fv, idx, numVertices, 0, 0)

\* SubdivMesh::numVertices(): the size of the first vertex buffer
numVertices(sizes) == sizes[0]

\* SubdivMesh::verify(); bad[t] holds the ids of the non-finite vertices
verify(fv, idxs, sizes, bad, ubs) ==
  IF DOMAIN sizes = {} THEN FALSE
  ELSE IF \E t \in DOMAIN sizes : sizes[t] # numVertices(sizes) THEN FALSE
  ELSE IF ~TopologyVerify(fv, idxs[0], numVertices(sizes)) THEN FALSE
  ELSE IF \E b \in DOMAIN ubs :
            ~TopologyVerify(fv, idxs[ubs[b].userdata], ubs[b].size)
       THEN FALSE
  ELSE IF \E t \in DOMAIN sizes : \E i \in bad[t] : i < sizes[t] THEN FALSE
  ELSE TRUE


\* ----------------------------------------------------------------- Updater

\* RepinHalfEdge that turns the half-edges it pins in pin-all mode into borders
RepinHalfEdge_Unlinks(he, mode, i) ==
  IF mode = "PIN_CORNERS" /\ isCorner(he, i)
  THEN [he EXCEPT ![i].vertex_crease_weight = inf]
  ELSE IF mode = "PIN_BOUNDARY" /\ vertexHasBorder(he, i)
  THEN [he EXCEPT ![i].vertex_crease_weight = inf]
  ELSE IF mode = "PIN_ALL"
  THEN [he EXCEPT ![i].edge_crease_weight = inf,
                  ![i].vertex_crease_weight = inf,
                  ![i].opposite_half_edge_ofs = 0]
  ELSE he

\* pin one half-edge again after its vertex crease weight was looked up
RepinHalfEdge(he, mode, i) ==
  IF mode = "PIN_CORNERS" /\ isCorner(he, i)
  THEN [he EXCEPT ![i].vertex_crease_weight = inf]
  ELSE IF mode = "PIN_BOUNDARY" /\ vertexHasBorder(he, i)
  THEN [he EXCEPT ![i].vertex_crease_weight = inf]
  ELSE IF mode = "PIN_ALL"
  THEN [he EXCEPT ![i].edge_crease_weight = inf,
                  ![i].vertex_crease_weight = inf]
  ELSE he

\* calculate which data to update
updateEdgeCreases(M) ==
  M.modified.vertexIndices[0] \/ M.modified.edge_creases
    \/ M.modified.edge_crease_weights

updateVertexCreases(M) ==
  M.modified.vertexIndices[0] \/ M.modified.vertex_creases
    \/ M.modified.vertex_crease_weights

updateLevels(M) == M.modified.levels

\* UpdateHalfEdge that looks up the edge crease of border half-edges too
UpdateHalfEdge_NoBorderGuard(M, k, he, geom, i) ==
  LET g == IF k = 0 THEN he ELSE geom
      he1 == IF updateLevels(M)
             THEN [he EXCEPT ![i].edge_level = getEdgeLevel(M, i)]
             ELSE he
      he2 == IF updateEdgeCreases(M)
             THEN [he1 EXCEPT ![i].edge_crease_weight =
                                 lookup(M.edgeCreaseMap, getEdge(g, i), 0)]
             ELSE he1
      he3 == IF updateVertexCreases(M)
                  /\ he2[i].vertex_type # "NON_MANIFOLD_EDGE_VERTEX"
             THEN RepinHalfEdge(
                    [he2 EXCEPT ![i].vertex_crease_weight =
                                  lookup(M.vertexCreaseMap, g[i].vtx_index, 0)],
                    M.subdiv_mode[k], i)
             ELSE he2
  IN  IF updateEdgeCreases(M) \/ updateVertexCreases(M)
      THEN [he3 EXCEPT ![i].patch_type = patchType(he3, i)]
      ELSE he3

\* UpdateHalfEdge that stores the edge crease weight on the opposite too
UpdateHalfEdge_BothSides(M, k, he, geom, i) ==
  LET g == IF k = 0 THEN he ELSE geom
      he1 == IF updateLevels(M)
             THEN [he EXCEPT ![i].edge_level = getEdgeLevel(M, i)]
             ELSE he
      he2 == IF updateEdgeCreases(M) /\ hasOpposite(he1, i)
             THEN [he1 EXCEPT ![i].edge_crease_weight =
                                 lookup(M.edgeCreaseMap, getEdge(g, i), 0),
                              ![opposite(he1, i)].edge_crease_weight =
                                 lookup(M.edgeCreaseMap, getEdge(g, i), 0)]
             ELSE he1
      he3 == IF updateVertexCreases(M)
                  /\ he2[i].vertex_type # "NON_MANIFOLD_EDGE_VERTEX"
             THEN RepinHalfEdge(
                    [he2 EXCEPT ![i].vertex_crease_weight =
                                  lookup(M.vertexCreaseMap, g[i].vtx_index, 0)],
                    M.subdiv_mode[k], i)
             ELSE he2
  IN  IF updateEdgeCreases(M) \/ updateVertexCreases(M)
      THEN [he3 EXCEPT ![i].patch_type = patchType(he3, i)]
      ELSE he3

\* the body of the Updater's loop for half-edge i; geom is the half-edge
\* array of the geometry topology (slot 0), he itself when k = 0
UpdateHalfEdge(M, k, he, geom, i) ==
  LET g == IF k = 0 THEN he ELSE geom
      he1 == IF updateLevels(M)
             THEN [he EXCEPT ![i].edge_level = getEdgeLevel(M, i)]
             ELSE he
      he2 == IF updateEdgeCreases(M) /\ hasOpposite(he1, i)
             THEN [he1 EXCEPT ![i].edge_crease_weight =
                                 lookup(M.edgeCreaseMap, getEdge(g, i), 0)]
             ELSE he1
      he3 == IF updateVertexCreases(M)
                  /\ he2[i].vertex_type # "NON_MANIFOLD_EDGE_VERTEX"
             THEN RepinHalfEdge(
                    [he2 EXCEPT ![i].vertex_crease_weight =
                                  lookup(M.vertexCreaseMap, g[i].vtx_index, 0)],
                    M.subdiv_mode[k], i)
             ELSE he2
  IN  IF updateEdgeCreases(M) \/ updateVertexCreases(M)
      THEN [he3 EXCEPT ![i].patch_type = patchType(he3, i)]
      ELSE he3

\* the loop over all half edges, i .. numHalfEdges-1, in index order
RECURSIVE UpdateLoop(_, _, _, _, _)
UpdateLoop(M, k, he, geom, i) ==
  IF i >= M.numHalfEdges \/ i \notin DOMAIN he THEN he
  ELSE UpdateLoop(M, k, UpdateHalfEdge(M, k, he, geom, i), geom, i + 1)

\* Topology::updateHalfEdges()
updateHalfEdges(M, k, he, geom) == UpdateLoop(M, k, he, geom, 0)

\* ------------------------------------------------------------- Coordinator

\* mvector::resize(n): keeps the elements it has
Resize(he, n) ==
  Table([i \in Range0(n) |->
           IF i \in DOMAIN he THEN he[i] ELSE DefaultHalfEdge])

\* recalculate that overlooks the hole buffer
recalculate_NoHoles(M, k) ==
  M.modified.vertexIndices[k] \/ M.modified.faceVertices

\* recalculate that looks at the index buffers of all slots
recalculate_AnyIndex(M, k) ==
  (\E j \in Slots : M.modified.vertexIndices[j])
    \/ M.modified.faceVertices \/ M.modified.holes

\* check if we have to recalculate the half edges
recalculate(M, k) ==
  M.modified.vertexIndices[k] \/ M.modified.faceVertices \/ M.modified.holes

\* check if we can simply update the half edges
update(M) ==
  M.modified.vertexIndices[0] \/ M.modified.edge_creases
    \/ M.modified.edge_crease_weights \/ M.modified.vertex_creases
    \/ M.modified.vertex_crease_weights \/ M.modified.levels

\* PassOf that updates without testing the update flags
PassOf_NoSkip(M, k) ==
  IF recalculate(M, k) THEN "build" ELSE "update"

\* which of the two passes Topology::initializeHalfEdgeStructures takes
PassOf(M, k) ==
  IF recalculate(M, k) THEN "build"
  ELSE IF update(M) THEN "update"
  ELSE "skip"

\* Topology::initializeHalfEdgeStructures() of slot k.  T is the mesh as the
\* slots before k left it: its half-edge arrays, the modified flags, the
\* face-invalid flags, and the pass each slot took.
TopologyInit(T, k) ==
  IF ArrLen(T.vertexIndices[k]) = 0 THEN [T EXCEPT !.ran[k] = "skip"]
  ELSE
    LET he0  == Resize(T.halfEdges[k], ArrLen(T.vertexIndices[0]))
        pass == PassOf(T, k)
        he1  == IF pass = "build" THEN calculateHalfEdges(T, k, he0)
                ELSE IF pass = "update"
                THEN updateHalfEdges(T, k, he0, T.halfEdges[0])
                ELSE he0
        inv  == IF pass = "build" /\ k = 0 THEN FaceValidity(T, he1)
                ELSE T.invalid_face
    IN  [T EXCEPT !.halfEdges[k] = he1,
                  !.invalid_face = inv,
                  !.ran[k] = pass,
                  !.modified.vertexIndices[k] = FALSE]

\* for (auto& t: topology) t.initializeHalfEdgeStructures(), slots k ..
RECURSIVE InitTopologies(_, _)
InitTopologies(T, k) ==
  IF k \notin Slots THEN T ELSE InitTopologies(TopologyInit(T, k), k + 1)

\* cleanup some state for static scenes
Cleanup(sc, map) == IF sc = "null" \/ sc = "static" THEN {} ELSE map


\* ------------------------------------------------------------ input meshes

\* per-face valences: three triangles; two quads and a triangle
Faces333 == Arr(<<3, 3, 3>>)
Faces443 == Arr(<<4, 4, 3>>)

\* as triangles: edge {0,1} in three faces, edges {1,2} and {0,2} in two
IdxNonManifold == Arr(<<0, 1, 2, 3, 0, 1, 2, 1, 0, 4, 5>>)
\* as 4,4,3: two quads sharing edge {1,4}, a triangle sharing {3,4} and {4,5}
IdxGrid == Arr(<<0, 1, 4, 3, 1, 2, 5, 4, 3, 4, 5>>)
\* edge {0,1} in two faces that both run 0 -> 1
IdxWinding == Arr(<<0, 1, 2, 3, 0, 1, 4, 5, 6, 7, 8>>)
\* no vertex shared between corners
IdxSplit == Arr(<<0, 1, 2, 3, 4, 5, 6, 7, 8, 9, 10>>)

FaceChoices == {Faces333, Faces443}

\* four triangles: edges {0,1} and {1,2} in three faces each, so that the
\* next half-edge of a non-manifold half-edge is non-manifold itself
Faces3333 == Arr(<<3, 3, 3, 3>>)
IdxTwoFans == Arr(<<0, 1, 2, 2, 1, 0, 0, 1, 3, 1, 2, 4>>)
\* the meshes whose link pass is run as parallel tasks
LinkMeshes ==
  {[faceVertices |-> Faces333, idx |-> IdxNonManifold, holes |-> Arr(<<>>)],
   [faceVertices |-> Faces333, idx |-> IdxNonManifold, holes |-> Arr(<<1>>)],
   [faceVertices |-> Faces333, idx |-> IdxWinding, holes |-> Arr(<<>>)],
   [faceVertices |-> Faces443, idx |-> IdxGrid, holes |-> Arr(<<>>)],
   [faceVertices |-> Faces443, idx |-> IdxGrid, holes |-> Arr(<<1>>)],
   [faceVertices |-> Faces3333, idx |-> IdxTwoFans, holes |-> Arr(<<>>)],
   [faceVertices |-> Faces3333, idx |-> IdxTwoFans, holes |-> Arr(<<3>>)]}
IndexChoices(k) ==
  IF k = 0 THEN {IdxNonManifold, IdxGrid, IdxWinding} ELSE {IdxGrid, IdxSplit}

\* every face has at least three corners with distinct vertex ids, and the
\* index buffer covers all faces
WellFormed(fv, idx) ==
  /\ SumTo(fv, ArrLen(fv)) <= ArrLen(idx)
  /\ \A f \in DOMAIN fv :
       /\ fv[f] >= 3
       /\ \A i, j \in SumTo(fv, f) .. (SumTo(fv, f) + fv[f] - 1) :
            i # j => idx[i] # idx[j]

LevelChoices ==
  {Table([i \in DOMAIN IdxGrid |-> 4]), Table([i \in DOMAIN IdxGrid |-> 1 + i])}

\* the meshes an application sets up before its first commit; the first has
\* no level buffer
InitialMeshes ==
  {[faceVertices |-> Faces333, idx0 |-> IdxNonManifold, idx1 |-> IdxSplit,
    levels |-> Arr(<<>>)],
   [faceVertices |-> Faces443, idx0 |-> IdxGrid, idx1 |-> IdxGrid,
    levels |-> Table([i \in DOMAIN IdxGrid |-> 4])]}

HoleChoices == {Arr(<<>>), Arr(<<1>>)}
EdgeCreaseChoices == {Arr(<< <<1, 4>> >>), Arr(<< <<2, 1>> >>)}
EdgeCreaseWeightChoices == {Arr(<<0>>), Arr(<<2>>)}
VertexCreaseChoices == {Arr(<<1>>), Arr(<<4>>)}
VertexCreaseWeightChoices == {Arr(<<0>>), Arr(<<3>>)}
\* the buffers attached before the first commit whose setBuffer call counts
\* in commitCounter (every type but the level buffer)
InitialBuffers ==
  {"RTC_FACE_BUFFER", "RTC_INDEX_BUFFER0", "RTC_INDEX_BUFFER1",
   "RTC_EDGE_CREASE_INDEX_BUFFER", "RTC_EDGE_CREASE_WEIGHT_BUFFER",
   "RTC_VERTEX_CREASE_INDEX_BUFFER", "RTC_VERTEX_CREASE_WEIGHT_BUFFER",
   "RTC_HOLE_BUFFER", "RTC_VERTEX_BUFFER0"}
\* the modes slot 0 is given before the first commit
InitialModes == {"SMOOTH_BOUNDARY", "PIN_ALL"}
\* the ids of the vertices whose position is not finite, per time step
VertexChoices == {{}, {0}}
RateChoices == {3}

TimeSteps == {0}

\* the topology ids an application passes: the slots and one past them
TopologyIDs == Slots \cup {Cardinality(Slots)}

\* no verify call was made yet
NotVerified == [call |-> "none"]

\* index buffers handed to verify: well formed ones, one that is too short
\* for three triangles and one that is too short for the second quad
IdxShort == Arr(<<0, 1, 2, 3, 0, 1>>)
VerifyIndexChoices == {IdxNonManifold, IdxGrid, IdxSplit, IdxShort}
VertexSizeChoices == {0, 3, 6, 9, 11}
UserBufferChoices ==
  {Arr(<<>>)}
    \cup {Arr(<<[size |-> n, userdata |-> k]>>) :
              n \in VertexSizeChoices, k \in Slots}
    \cup {Arr(<<[size |-> 11, userdata |-> 0], [size |-> n, userdata |-> 1]>>) :
              n \in VertexSizeChoices}

\* ------------------------------------------------------------------- state

VARIABLES
  faceVertices,           \* face buffer: valence per face
  vertexIndices,          \* per slot: the index buffer
  holes,                  \* hole buffer: face ids
  levels,                 \* level buffer (empty: not set)
  edge_creases,           \* edge crease index buffer: vertex pairs
  edge_crease_weights,
  vertex_creases,         \* vertex crease index buffer: vertex ids
  vertex_crease_weights,
  vertices,               \* per time step: the ids of the non-finite vertices
  modified,               \* the modified flag of each buffer
  tessellationRate,
  subdiv_mode,            \* per slot
  scene,                  \* "null", "static" (isStaticAccel) or "dynamic"
  numHalfEdges,
  faceStartEdge,
  edgeCreaseMap,
  vertexCreaseMap,
  holeSet,
  halfEdges,              \* per slot: the half-edge array
  invalid_face,           \* per face and time step
  commitCounter,
  ran,                    \* per slot: the pass the last commit took
  builtMode,              \* per slot: the mode its Builder last ran under
  startMod,               \* the modified flags the last commit started with
  committed,              \* no API call since the last commit
  nops,                   \* API calls made so far
  vertexSizes,            \* per time step: the size of the vertex buffer
  userbuffers,            \* user vertex buffers: size and bound slot
  verified,               \* the last verify call and what it returned
  error,                  \* the error code the last API call raised
  halfEdges1,             \* the sorted (key, half-edge) array of a build
  tasks,                  \* the tasks of the parallel pass that is running
  processed               \* per sorted position: the runs linked over it

buffers == <<faceVertices, vertexIndices, holes, levels, edge_creases,
             edge_crease_weights, vertex_creases, vertex_crease_weights,
             vertices>>
derived == <<numHalfEdges, faceStartEdge, edgeCreaseMap, vertexCreaseMap,
             holeSet, halfEdges, invalid_face>>
history == <<ran, builtMode, startMod>>
verification == <<vertexSizes, userbuffers, verified>>
linking == <<halfEdges1, tasks, processed>>

vars == <<buffers, modified, tessellationRate, subdiv_mode, scene, derived,
          commitCounter, history, committed, nops, verification, error,
          linking>>

AllModified ==
  [faceVertices |-> TRUE, holes |-> TRUE, levels |-> TRUE,
   edge_creases |-> TRUE, edge_crease_weights |-> TRUE,
   vertex_creases |-> TRUE, vertex_crease_weights |-> TRUE,
   vertices |-> [t \in TimeSteps |-> TRUE],
   vertexIndices |-> [k \in Slots |-> TRUE]]

\* The mesh after SubdivMesh::SubdivMesh, the setBuffer calls that attach its
\* buffers and an optional setSubdivisionMode(0,mode): every buffer starts
\* modified, no half-edge exists yet.
Init ==
  /\ \E m \in InitialMeshes :
       /\ faceVertices = m.faceVertices
       /\ vertexIndices = [k \in Slots |-> IF k = 0 THEN m.idx0 ELSE m.idx1]
       /\ levels = m.levels
  /\ holes = Arr(<<>>)
  /\ edge_creases = Arr(<< <<1, 4>> >>)
  /\ edge_crease_weights = Arr(<<2>>)
  /\ vertex_creases = Arr(<<1>>)
  /\ vertex_crease_weights = Arr(<<0>>)
  /\ vertices = [t \in TimeSteps |-> {}]
  /\ modified = AllModified
  /\ tessellationRate = InitialTessellationRate
  /\ \E mode \in InitialModes :
       /\ subdiv_mode =
            [k \in Slots |-> IF k = 0 THEN mode ELSE "SMOOTH_BOUNDARY"]
       /\ commitCounter = Cardinality(InitialBuffers)
                            + (IF mode = "SMOOTH_BOUNDARY" THEN 0 ELSE 1)
  /\ scene \in Scenes
  /\ numHalfEdges = 0
  /\ faceStartEdge = Arr(<<>>)
  /\ edgeCreaseMap = {}
  /\ vertexCreaseMap = {}
  /\ holeSet = {}
  /\ halfEdges = [k \in Slots |-> Arr(<<>>)]
  /\ invalid_face = Arr(<<>>)
  /\ ran = [k \in Slots |-> "none"]
  /\ builtMode = [k \in Slots |-> "none"]
  /\ startMod = AllModified
  /\ committed = FALSE
  /\ nops = 0
  /\ vertexSizes = [t \in TimeSteps |-> KeyRadix]
  /\ userbuffers = Arr(<<>>)
  /\ verified = NotVerified
  /\ error = "RTC_NO_ERROR"
  /\ halfEdges1 = Arr(<<>>)
  /\ tasks = <<>>
  /\ processed = Arr(<<>>)


\* ----------------------------------------------------------------- actions

\* an API call is made: counted, and the mesh is no longer as committed
ApiCall ==
  /\ nops < MaxOps
  /\ nops' = nops + 1
  /\ committed' = FALSE
  /\ error' = "RTC_NO_ERROR"
  /\ UNCHANGED <<scene, derived, history, verification, linking>>

\* throw_RTCError(code,...): the call is made and ends with the error, before
\* it has assigned anything
ThrowRTCError(code) ==
  /\ nops < MaxOps
  /\ nops' = nops + 1
  /\ committed' = FALSE
  /\ error' = code
  /\ UNCHANGED <<buffers, modified, tessellationRate, subdiv_mode, scene,
                 derived, commitCounter, history, verification, linking>>

\* SubdivMesh::updateBuffer(type) is called after the application rewrote the
\* buffer; SubdivMesh::update() marks buffers without any rewrite.

\* SubdivMesh::updateBuffer(RTC_FACE_BUFFER)
UpdateFaceBuffer ==
  /\ ApiCall
  /\ \E fv \in FaceChoices \ {faceVertices} :
       /\ \A k \in Slots : WellFormed(fv, vertexIndices[k])
       /\ faceVertices' = fv
  /\ modified' = [modified EXCEPT !.faceVertices = TRUE]
  /\ commitCounter' = commitCounter + 1
  /\ UNCHANGED <<vertexIndices, holes, levels, edge_creases,
                 edge_crease_weights, vertex_creases, vertex_crease_weights,
                 vertices, tessellationRate, subdiv_mode>>

\* SubdivMesh::updateBuffer(RTC_INDEX_BUFFER+k)
UpdateIndexBuffer(k) ==
  /\ ApiCall
  /\ \E idx \in IndexChoices(k) \ {vertexIndices[k]} :
       /\ WellFormed(faceVertices, idx)
       /\ vertexIndices' = [vertexIndices EXCEPT ![k] = idx]
  /\ modified' = [modified EXCEPT !.vertexIndices[k] = TRUE]
  /\ commitCounter' = commitCounter + 1
  /\ UNCHANGED <<faceVertices, holes, levels, edge_creases,
                 edge_crease_weights, vertex_creases, vertex_crease_weights,
                 vertices, tessellationRate, subdiv_mode>>

\* SubdivMesh::updateBuffer(RTC_HOLE_BUFFER)
UpdateHoleBuffer ==
  /\ ApiCall
  /\ holes' \in HoleChoices \ {holes}
  /\ modified' = [modified EXCEPT !.holes = TRUE]
  /\ commitCounter' = commitCounter + 1
  /\ UNCHANGED <<faceVertices, vertexIndices, levels, edge_creases,
                 edge_crease_weights, vertex_creases, vertex_crease_weights,
                 vertices, tessellationRate, subdiv_mode>>

\* SubdivMesh::updateBuffer(RTC_LEVEL_BUFFER): the only buffer type that
\* leaves commitCounter alone
UpdateLevelBuffer ==
  /\ ApiCall
  /\ IF ArrLen(levels) = 0 THEN levels' = levels
     ELSE levels' \in LevelChoices \ {levels}
  /\ modified' = [modified EXCEPT !.levels = TRUE]
  /\ UNCHANGED <<faceVertices, vertexIndices, holes, edge_creases,
                 edge_crease_weights, vertex_creases, vertex_crease_weights,
                 vertices, tessellationRate, subdiv_mode, commitCounter>>

\* SubdivMesh::updateBuffer(RTC_EDGE_CREASE_INDEX_BUFFER)
UpdateEdgeCreaseIndexBuffer ==
  /\ ApiCall
  /\ edge_creases' \in EdgeCreaseChoices \ {edge_creases}
  /\ modified' = [modified EXCEPT !.edge_creases = TRUE]
  /\ commitCounter' = commitCounter + 1
  /\ UNCHANGED <<faceVertices, vertexIndices, holes, levels,
                 edge_crease_weights, vertex_creases, vertex_crease_weights,
                 vertices, tessellationRate, subdiv_mode>>

\* SubdivMesh::updateBuffer(RTC_EDGE_CREASE_WEIGHT_BUFFER)
UpdateEdgeCreaseWeightBuffer ==
  /\ ApiCall
  /\ edge_crease_weights' \in EdgeCreaseWeightChoices \ {edge_crease_weights}
  /\ modified' = [modified EXCEPT !.edge_crease_weights = TRUE]
  /\ commitCounter' = commitCounter + 1
  /\ UNCHANGED <<faceVertices, vertexIndices, holes, levels, edge_creases,
                 vertex_creases, vertex_crease_weights, vertices,
                 tessellationRate, subdiv_mode>>

\* SubdivMesh::updateBuffer(RTC_VERTEX_CREASE_INDEX_BUFFER)
UpdateVertexCreaseIndexBuffer ==
  /\ ApiCall
  /\ vertex_creases' \in VertexCreaseChoices \ {vertex_creases}
  /\ modified' = [modified EXCEPT !.vertex_creases = TRUE]
  /\ commitCounter' = commitCounter + 1
  /\ UNCHANGED <<faceVertices, vertexIndices, holes, levels, edge_creases,
                 edge_crease_weights, vertex_crease_weights, vertices,
                 tessellationRate, subdiv_mode>>

\* SubdivMesh::updateBuffer(RTC_VERTEX_CREASE_WEIGHT_BUFFER)
UpdateVertexCreaseWeightBuffer ==
  /\ ApiCall
  /\ vertex_crease_weights' \in VertexCreaseWeightChoices
                                \ {vertex_crease_weights}
  /\ modified' = [modified EXCEPT !.vertex_crease_weights = TRUE]
  /\ commitCounter' = commitCounter + 1
  /\ UNCHANGED <<faceVertices, vertexIndices, holes, levels, edge_creases,
                 edge_crease_weights, vertex_creases, vertices,
                 tessellationRate, subdiv_mode>>

\* SubdivMesh::updateBuffer(RTC_VERTEX_BUFFER0+t)
UpdateVertexBuffer(t) ==
  /\ ApiCall
  /\ \E bad \in VertexChoices \ {vertices[t]} :
       vertices' = [vertices EXCEPT ![t] = bad]
  /\ modified' = [modified EXCEPT !.vertices[t] = TRUE]
  /\ commitCounter' = commitCounter + 1
  /\ UNCHANGED <<faceVertices, vertexIndices, holes, levels, edge_creases,
                 edge_crease_weights, vertex_creases, vertex_crease_weights,
                 tessellationRate, subdiv_mode>>

\* SubdivMesh::update(): marks every buffer modified
Update ==
  /\ ApiCall
  /\ modified' = AllModified
  /\ UNCHANGED <<buffers, tessellationRate, subdiv_mode, commitCounter>>

\* SetSubdivisionMode without the early return on an unchanged mode
SetSubdivisionMode_AlwaysMarks(topologyID, mode) ==
  IF topologyID >= Cardinality(Slots)
  THEN ThrowRTCError("RTC_INVALID_OPERATION")
  ELSE /\ ApiCall
       /\ subdiv_mode' = [subdiv_mode EXCEPT ![topologyID] = mode]
       /\ modified' = [modified EXCEPT !.vertex_crease_weights = TRUE]
       /\ commitCounter' = commitCounter + 1
       /\ UNCHANGED <<buffers, tessellationRate>>

\* SubdivMesh::setSubdivisionMode(topologyID,mode) and, for an existing
\* slot, Topology::setSubdivisionMode(mode)
SetSubdivisionMode(topologyID, mode) ==
  IF topologyID >= Cardinality(Slots)
  THEN ThrowRTCError("RTC_INVALID_OPERATION")
  ELSE /\ ApiCall
       /\ IF subdiv_mode[topologyID] = mode
          THEN UNCHANGED <<subdiv_mode, modified, commitCounter>>
          ELSE /\ subdiv_mode' = [subdiv_mode EXCEPT ![topologyID] = mode]
               /\ modified' = [modified EXCEPT !.vertex_crease_weights = TRUE]
               /\ commitCounter' = commitCounter + 1
       /\ UNCHANGED <<buffers, tessellationRate>>

\* SubdivMesh::setTessellationRate(N)
SetTessellationRate(N) ==
  /\ ApiCall
  /\ tessellationRate' = N
  /\ modified' = [modified EXCEPT !.levels = TRUE]
  /\ UNCHANGED <<buffers, subdiv_mode, commitCounter>>

\* MeshAtCommit that lays the faces out only when no layout exists yet
MeshAtCommit_StaleLayout ==
  LET layout == PrefixSum(faceVertices)
  IN  [faceVertices    |-> faceVertices,
       vertexIndices   |-> vertexIndices,
       levels          |-> levels,
       vertices        |-> vertices,
       tessellationRate |-> tessellationRate,
       subdiv_mode     |-> subdiv_mode,
       modified        |-> modified,
       numHalfEdges    |-> IF modified.faceVertices /\ numHalfEdges = 0
                           THEN SumTo(faceVertices, ArrLen(faceVertices))
                           ELSE numHalfEdges,
       faceStartEdge   |-> IF modified.faceVertices /\ numHalfEdges = 0
                           THEN layout
                           ELSE faceStartEdge,
       vertexCreaseMap |-> IF modified.vertex_creases
                                \/ modified.vertex_crease_weights
                           THEN VertexCreaseMapOf(vertex_creases,
                                                  vertex_crease_weights)
                           ELSE vertexCreaseMap,
       edgeCreaseMap   |-> IF modified.edge_creases
                                \/ modified.edge_crease_weights
                           THEN EdgeCreaseMapOf(edge_creases,
                                                edge_crease_weights)
                           ELSE edgeCreaseMap,
       holeSet         |-> IF modified.holes THEN HoleSetOf(holes)
                           ELSE holeSet,
       halfEdges       |-> halfEdges,
       invalid_face    |-> Table([f \in DOMAIN faceVertices |->
                             Table([t \in TimeSteps |->
                                IF f \in DOMAIN invalid_face
                                THEN invalid_face[f][t] ELSE FALSE])]),
       ran             |-> ran]


\* the mesh as SubdivMesh::initializeHalfEdgeStructures hands it to the
\* slots: layout and registries rebuilt from the buffers marked modified
MeshAtCommit ==
  LET layout == PrefixSum(faceVertices)
  IN  [faceVertices    |-> faceVertices,
       vertexIndices   |-> vertexIndices,
       levels          |-> levels,
       vertices        |-> vertices,
       tessellationRate |-> tessellationRate,
       subdiv_mode     |-> subdiv_mode,
       modified        |-> modified,
       numHalfEdges    |-> IF modified.faceVertices
                           THEN SumTo(faceVertices, ArrLen(faceVertices))
                           ELSE numHalfEdges,
       faceStartEdge   |-> IF modified.faceVertices THEN layout
                           ELSE faceStartEdge,
       vertexCreaseMap |-> IF modified.vertex_creases
                                \/ modified.vertex_crease_weights
                           THEN VertexCreaseMapOf(vertex_creases,
                                                  vertex_crease_weights)
                           ELSE vertexCreaseMap,
       edgeCreaseMap   |-> IF modified.edge_creases
                                \/ modified.edge_crease_weights
                           THEN EdgeCreaseMapOf(edge_creases,
                                                edge_crease_weights)
                           ELSE edgeCreaseMap,
       holeSet         |-> IF modified.holes THEN HoleSetOf(holes)
                           ELSE holeSet,
       halfEdges       |-> halfEdges,
       invalid_face    |-> Table([f \in DOMAIN faceVertices |->
                             Table([t \in TimeSteps |->
                                IF f \in DOMAIN invalid_face
                                THEN invalid_face[f][t] ELSE FALSE])]),
       ran             |-> ran]

\* ClearModified that forgets the level buffer
ClearModified_KeepsLevels(m) ==
  [m EXCEPT !.faceVertices = FALSE, !.holes = FALSE,
            !.vertices = [t \in TimeSteps |-> FALSE],
            !.edge_creases = FALSE, !.edge_crease_weights = FALSE,
            !.vertex_creases = FALSE, !.vertex_crease_weights = FALSE]

\* clear modified state of all buffers (the index buffers were cleared by
\* their slots)
ClearModified(m) ==
  [m EXCEPT !.faceVertices = FALSE, !.holes = FALSE,
            !.vertices = [t \in TimeSteps |-> FALSE],
            !.levels = FALSE,
            !.edge_creases = FALSE, !.edge_crease_weights = FALSE,
            !.vertex_creases = FALSE, !.vertex_crease_weights = FALSE]

\* SubdivMesh::commit(): SubdivMesh::initializeHalfEdgeStructures()
Commit ==
  \E T \in {InitTopologies(MeshAtCommit, 0)} :
      /\ numHalfEdges' = T.numHalfEdges
      /\ faceStartEdge' = T.faceStartEdge
      /\ holeSet' = T.holeSet
      /\ halfEdges' = T.halfEdges
      /\ invalid_face' = T.invalid_face
      /\ vertexCreaseMap' = Cleanup(scene, T.vertexCreaseMap)
      /\ edgeCreaseMap' = Cleanup(scene, T.edgeCreaseMap)
      /\ modified' = ClearModified(T.modified)
      /\ ran' = T.ran
      /\ builtMode' = [k \in Slots |->
                         IF ran'[k] = "build" THEN subdiv_mode[k]
                         ELSE builtMode[k]]
      /\ startMod' = modified
      /\ committed' = TRUE
      /\ UNCHANGED <<buffers, tessellationRate, subdiv_mode, scene,
                     commitCounter, nops, verification, error, linking>>

\* the buffers as the application attached them, before any commit, for a
\* call of verify: index buffers may be too short and vertex ids too large
InitVerify ==
  /\ faceVertices \in FaceChoices
  /\ vertexIndices \in [Slots -> VerifyIndexChoices]
  /\ levels = Arr(<<>>)
  /\ holes = Arr(<<>>)
  /\ edge_creases = Arr(<<>>)
  /\ edge_crease_weights = Arr(<<>>)
  /\ vertex_creases = Arr(<<>>)
  /\ vertex_crease_weights = Arr(<<>>)
  /\ vertices \in [TimeSteps -> VertexChoices]
  /\ modified = AllModified
  /\ tessellationRate = InitialTessellationRate
  /\ subdiv_mode = [k \in Slots |-> "SMOOTH_BOUNDARY"]
  /\ commitCounter = Cardinality(InitialBuffers)
  /\ scene = "null"
  /\ numHalfEdges = 0
  /\ faceStartEdge = Arr(<<>>)
  /\ edgeCreaseMap = {}
  /\ vertexCreaseMap = {}
  /\ holeSet = {}
  /\ halfEdges = [k \in Slots |-> Arr(<<>>)]
  /\ invalid_face = Arr(<<>>)
  /\ ran = [k \in Slots |-> "none"]
  /\ builtMode = [k \in Slots |-> "none"]
  /\ startMod = AllModified
  /\ committed = FALSE
  /\ nops = 0
  /\ vertexSizes \in [TimeSteps -> VertexSizeChoices]
  /\ userbuffers \in UserBufferChoices
  /\ verified = NotVerified
  /\ error = "RTC_NO_ERROR"
  /\ halfEdges1 = Arr(<<>>)
  /\ tasks = <<>>
  /\ processed = Arr(<<>>)

\* what no verify call touches
unverified == <<buffers, modified, tessellationRate, subdiv_mode, scene,
                derived, commitCounter, history, committed, nops,
                vertexSizes, userbuffers, error, linking>>

\* SubdivMesh::Topology::verify(n) is called on slot k
VerifyTopology(k, n) ==
  /\ verified' = [call |-> "topology", slot |-> k, numVertices |-> n,
                  result |-> TopologyVerify(faceVertices, vertexIndices[k], n)]
  /\ UNCHANGED unverified

\* SubdivMesh::verify() is called
Verify ==
  /\ verified' = [call |-> "mesh",
                  result |-> verify(faceVertices, vertexIndices, vertexSizes,
                                    vertices, userbuffers)]
  /\ UNCHANGED unverified

NextVerify ==
  \/ \E k \in Slots, n \in VertexSizeChoices : VerifyTopology(k, n)
  \/ Verify

SpecVerify == InitVerify /\ [][NextVerify]_vars

\* --------------------------------------------- the link pass as parallel tasks

\* the mesh as the Builder reads it once the coordinator has rebuilt the
\* layout and the registries
MeshInBuild ==
  [faceVertices     |-> faceVertices,
   vertexIndices    |-> vertexIndices,
   levels           |-> levels,
   tessellationRate |-> tessellationRate,
   subdiv_mode      |-> subdiv_mode,
   numHalfEdges     |-> numHalfEdges,
   faceStartEdge    |-> faceStartEdge,
   vertexCreaseMap  |-> vertexCreaseMap,
   edgeCreaseMap    |-> edgeCreaseMap,
   holeSet          |-> holeSet,
   modified         |-> modified]

\* halfEdges1 after radix_sort_u64: the (key, half-edge) pairs in key order
SortedKeyHalfEdges(M, k, he) ==
  LET n == M.numHalfEdges
      keys == CreateKeys(M, k, Table([i \in DOMAIN he |-> 0]), 0)
      S == SortedHalfEdges(keys, n)
  IN  Table([p \in Range0(n) |-> [key |-> keys[S[p]], edge |-> S[p]]])

\* sorted position -> half-edge, and half-edge -> key, of a sorted array
SortedOf(h1) == Table([p \in DOMAIN h1 |-> h1[p].edge])
KeysOf(h1) ==
  Table([i \in {h1[p].edge : p \in DOMAIN h1} |->
           h1[CHOOSE p \in DOMAIN h1 : h1[p].edge = i].key])

\* the ways parallel_for splits [0,n) into at most MaxTasks ranges: the
\* positions at which a range other than the first begins
Partitions(n) ==
  {cuts \in SUBSET (1 .. (n - 1)) : Cardinality(cuts) < MaxTasks}

\* the tasks of a split, each about to run the body on its range r
TasksOf(cuts, n) ==
  Table([rb \in cuts \cup {0} |->
     [end |-> IF \E c \in cuts : c > rb
              THEN CHOOSE c \in cuts :
                     c > rb /\ \A d \in cuts : d > rb => c <= d
              ELSE n,
      e |-> rb, i |-> 0, pc |-> "skip"]])

\* slot 0 in the middle of its Builder: all half-edges created, halfEdges1
\* sorted, and the link pass split into tasks none of which has started
InitLink ==
  /\ \E m \in LinkMeshes :
       /\ faceVertices = m.faceVertices
       /\ vertexIndices = [k \in Slots |-> m.idx]
       /\ holes = m.holes
  /\ levels = Arr(<<>>)
  /\ edge_creases = Arr(<< <<1, 4>> >>)
  /\ edge_crease_weights = Arr(<<2>>)
  /\ vertex_creases = Arr(<<1>>)
  /\ vertex_crease_weights = Arr(<<3>>)
  /\ vertices = [t \in TimeSteps |-> {}]
  /\ modified = AllModified
  /\ tessellationRate = InitialTessellationRate
  /\ subdiv_mode = [k \in Slots |-> "SMOOTH_BOUNDARY"]
  /\ commitCounter = Cardinality(InitialBuffers)
  /\ scene = "dynamic"
  /\ numHalfEdges = SumTo(faceVertices, ArrLen(faceVertices))
  /\ faceStartEdge = PrefixSum(faceVertices)
  /\ edgeCreaseMap = EdgeCreaseMapOf(edge_creases, edge_crease_weights)
  /\ vertexCreaseMap = VertexCreaseMapOf(vertex_creases, vertex_crease_weights)
  /\ holeSet = HoleSetOf(holes)
  /\ halfEdges =
       [k \in Slots |->
          IF k = 0
          THEN CreateHalfEdges(MeshInBuild, 0,
                 Resize(Arr(<<>>), ArrLen(vertexIndices[0])), 0)
          ELSE Arr(<<>>)]
  /\ invalid_face = Arr(<<>>)
  /\ ran = [k \in Slots |-> "none"]
  /\ builtMode = [k \in Slots |-> "none"]
  /\ startMod = AllModified
  /\ committed = FALSE
  /\ nops = 0
  /\ vertexSizes = [t \in TimeSteps |-> KeyRadix]
  /\ userbuffers = Arr(<<>>)
  /\ verified = NotVerified
  /\ error = "RTC_NO_ERROR"
  /\ halfEdges1 = SortedKeyHalfEdges(MeshInBuild, 0, halfEdges[0])
  /\ \E cuts \in Partitions(numHalfEdges) :
       tasks = TasksOf(cuts, numHalfEdges)
  /\ processed = [p \in Range0(numHalfEdges) |-> <<>>]

\* what no task of the link pass touches
unlinked == <<buffers, modified, tessellationRate, subdiv_mode, scene,
              numHalfEdges, faceStartEdge, edgeCreaseMap, vertexCreaseMap,
              holeSet, invalid_face, commitCounter, history, committed, nops,
              verification, error, halfEdges1>>

\* the run of N entries from e on is processed by task rb
Processed(rb, e, N) ==
  Table([p \in DOMAIN processed |->
     IF p >= e /\ p < e + N
     THEN Append(processed[p], [task |-> rb, e |-> e, N |-> N])
     ELSE processed[p]])

\* The loop control of a task reads its own range and halfEdges1 only, which
\* no task writes during the pass: a step of a task is one iteration of its
\* loop together with the loop control before and after it.

\* the position at which task rb goes on: past a run that started before its
\* range if it has not linked anything yet
TaskPosition(rb) ==
  IF tasks[rb].pc = "skip"
  THEN LinkStart(KeysOf(halfEdges1), SortedOf(halfEdges1), rb, tasks[rb].end)
  ELSE tasks[rb].e

\* while (e<r.end()) fails at e, or the key at e is the hole key: break
TaskOver(rb, e) ==
  IF e < tasks[rb].end THEN halfEdges1[e].key = HoleKey ELSE TRUE

\* task rb as it stands at position e, iteration i of a non-manifold run
TaskAt(rb, e, i) ==
  [tasks EXCEPT ![rb].e = e, ![rb].i = i,
                ![rb].pc = IF TaskOver(rb, e) THEN "done" ELSE "link"]

\* a border edge or an edge shared between two faces
LinkTaskRun(rb) ==
  LET keys == KeysOf(halfEdges1)
      S == SortedOf(halfEdges1)
      e == TaskPosition(rb)
      N == RunLength(keys, S, e, 1, numHalfEdges)
  IN  /\ tasks[rb].pc # "done"
      /\ ~TaskOver(rb, e)
      /\ N <= 2
      /\ halfEdges' = [halfEdges EXCEPT ![0] = LinkRun(@, S, e, N)]
      /\ processed' = Processed(rb, e, N)
      /\ tasks' = TaskAt(rb, e + N, 0)
      /\ UNCHANGED unlinked

\* iteration i of the loop over a non-manifold run
LinkTaskPin(rb) ==
  LET keys == KeysOf(halfEdges1)
      S == SortedOf(halfEdges1)
      e == TaskPosition(rb)
      i == tasks[rb].i
      N == RunLength(keys, S, e, 1, numHalfEdges)
  IN  /\ tasks[rb].pc # "done"
      /\ ~TaskOver(rb, e)
      /\ N > 2
      /\ halfEdges' = [halfEdges EXCEPT ![0] = PinNonManifold(@, S, e, i, i + 1)]
      /\ processed' = IF i = 0 THEN Processed(rb, e, N) ELSE processed
      /\ tasks' = IF i + 1 < N THEN TaskAt(rb, e, i + 1)
                  ELSE TaskAt(rb, e + N, 0)
      /\ UNCHANGED unlinked

\* a task with no run to link in its range
LinkTaskEnd(rb) ==
  /\ tasks[rb].pc = "skip"
  /\ TaskOver(rb, TaskPosition(rb))
  /\ tasks' = [tasks EXCEPT ![rb].pc = "done"]
  /\ UNCHANGED <<unlinked, halfEdges, processed>>

NextLink ==
  \E rb \in DOMAIN tasks :
    \/ LinkTaskRun(rb)
    \/ LinkTaskPin(rb)
    \/ LinkTaskEnd(rb)

SpecLink == InitLink /\ [][NextLink]_vars


\* ------------------------------------------ the Updater as parallel iterations

\* the mesh of InitialMeshes m with slot 0 in the given mode, as its first
\* commit hands it to the slots: every buffer modified, nothing built yet
FirstCommit(m, mode) ==
  [faceVertices     |-> m.faceVertices,
   vertexIndices    |-> [k \in Slots |-> IF k = 0 THEN m.idx0 ELSE m.idx1],
   levels           |-> m.levels,
   vertices         |-> [t \in TimeSteps |-> {}],
   tessellationRate |-> InitialTessellationRate,
   subdiv_mode      |-> [k \in Slots |->
                           IF k = 0 THEN mode ELSE "SMOOTH_BOUNDARY"],
   modified         |-> AllModified,
   numHalfEdges     |-> SumTo(m.faceVertices, ArrLen(m.faceVertices)),
   faceStartEdge    |-> PrefixSum(m.faceVertices),
   vertexCreaseMap  |-> VertexCreaseMapOf(Arr(<<1>>), Arr(<<0>>)),
   edgeCreaseMap    |-> EdgeCreaseMapOf(Arr(<< <<1, 4>> >>), Arr(<<2>>)),
   holeSet          |-> {},
   halfEdges        |-> [k \in Slots |-> Arr(<<>>)],
   invalid_face     |-> Table([f \in DOMAIN m.faceVertices |->
                          Table([t \in TimeSteps |-> FALSE])]),
   ran              |-> [k \in Slots |-> "none"]]

\* the buffers an application marks before a commit that only updates
UpdateFlagChoices ==
  {{"edge_crease_weights"}, {"vertex_crease_weights"}, {"levels"},
   {"edge_crease_weights", "vertex_crease_weights", "levels"}}

\* a committed mesh in a dynamic scene whose crease weights or levels were
\* rewritten, in the middle of the next commit: the registries are rebuilt
\* and slot 0 is about to run the loop of its Updater
InitUpdate ==
  /\ \E m \in InitialMeshes, mode \in InitialModes :
       LET T == InitTopologies(FirstCommit(m, mode), 0)
       IN  /\ faceVertices = T.faceVertices
           /\ vertexIndices = T.vertexIndices
           /\ levels = T.levels
           /\ subdiv_mode = T.subdiv_mode
           /\ numHalfEdges = T.numHalfEdges
           /\ faceStartEdge = T.faceStartEdge
           /\ halfEdges = T.halfEdges
           /\ invalid_face = T.invalid_face
           /\ commitCounter = Cardinality(InitialBuffers)
                                + (IF mode = "SMOOTH_BOUNDARY" THEN 0 ELSE 1) + 1
  /\ holes = Arr(<<>>)
  /\ edge_creases = Arr(<< <<1, 4>> >>)
  /\ edge_crease_weights = Arr(<<0>>)
  /\ vertex_creases = Arr(<<1>>)
  /\ vertex_crease_weights = Arr(<<3>>)
  /\ vertices = [t \in TimeSteps |-> {}]
  /\ \E marked \in UpdateFlagChoices :
       modified =
         [faceVertices |-> FALSE, holes |-> FALSE,
          levels |-> "levels" \in marked,
          edge_creases |-> FALSE,
          edge_crease_weights |-> "edge_crease_weights" \in marked,
          vertex_creases |-> FALSE,
          vertex_crease_weights |-> "vertex_crease_weights" \in marked,
          vertices |-> [t \in TimeSteps |-> FALSE],
          vertexIndices |-> [k \in Slots |-> FALSE]]
  /\ tessellationRate = InitialTessellationRate
  /\ scene = "dynamic"
  /\ edgeCreaseMap =
       IF modified.edge_crease_weights
       THEN EdgeCreaseMapOf(edge_creases, edge_crease_weights)
       ELSE EdgeCreaseMapOf(Arr(<< <<1, 4>> >>), Arr(<<2>>))
  /\ vertexCreaseMap =
       IF modified.vertex_crease_weights
       THEN VertexCreaseMapOf(vertex_creases, vertex_crease_weights)
       ELSE VertexCreaseMapOf(Arr(<<1>>), Arr(<<0>>))
  /\ holeSet = {}
  /\ ran = [k \in Slots |-> "build"]
  /\ builtMode = subdiv_mode
  /\ startMod = modified
  /\ committed = FALSE
  /\ nops = 1
  /\ vertexSizes = [t \in TimeSteps |-> KeyRadix]
  /\ userbuffers = Arr(<<>>)
  /\ verified = NotVerified
  /\ error = "RTC_NO_ERROR"
  /\ halfEdges1 = Arr(<<>>)
  /\ tasks = [slot |-> 0, todo |-> Range0(numHalfEdges)]
  /\ processed = Arr(<<>>)

\* one iteration of the parallel loop over all half edges, for index i of the
\* slot whose Updater is running
UpdateIteration(i) ==
  LET k == tasks.slot
  IN  /\ i \in tasks.todo
      /\ halfEdges' = [halfEdges EXCEPT
                         ![k] = UpdateHalfEdge(MeshInBuild, k, @,
                                               halfEdges[0], i)]
      /\ tasks' = [tasks EXCEPT !.todo = @ \ {i}]
      /\ UNCHANGED <<buffers, modified, tessellationRate, subdiv_mode, scene,
                     numHalfEdges, faceStartEdge, edgeCreaseMap,
                     vertexCreaseMap, holeSet, invalid_face, commitCounter,
                     history, committed, nops, verification, error,
                     halfEdges1, processed>>

\* the loop of a slot is over: its index flag is cleared and the Updater of
\* the next slot starts
NextTopology ==
  /\ tasks.todo = {}
  /\ tasks.slot + 1 \in Slots
  /\ modified' = [modified EXCEPT !.vertexIndices[tasks.slot] = FALSE]
  /\ tasks' = [slot |-> tasks.slot + 1, todo |-> Range0(numHalfEdges)]
  /\ UNCHANGED <<buffers, tessellationRate, subdiv_mode, scene, derived,
                 commitCounter, history, committed, nops, verification, error,
                 halfEdges1, processed>>

NextUpdate ==
  \/ \E i \in Range0(numHalfEdges) : UpdateIteration(i)
  \/ NextTopology

SpecUpdate == InitUpdate /\ [][NextUpdate]_vars

Next ==
  \/ UpdateFaceBuffer
  \/ \E k \in Slots : UpdateIndexBuffer(k)
  \/ UpdateHoleBuffer
  \/ UpdateLevelBuffer
  \/ UpdateEdgeCreaseIndexBuffer
  \/ UpdateEdgeCreaseWeightBuffer
  \/ UpdateVertexCreaseIndexBuffer
  \/ UpdateVertexCreaseWeightBuffer
  \/ \E t \in TimeSteps : UpdateVertexBuffer(t)
  \/ Update
  \/ \E topologyID \in TopologyIDs, mode \in Modes :
       SetSubdivisionMode(topologyID, mode)
  \/ \E N \in RateChoices : SetTessellationRate(N)
  \/ Commit

Spec == Init /\ [][Next]_vars

\* ------------------------------------------------------------------ claims

\* a step of Commit: the only action that leaves the mesh committed
CommitStep == committed'

\* the flags at the start of a commit say that a crease or level buffer
\* changed and nothing else did
OnlyCreaseOrLevelChanged(m) ==
  /\ ~m.faceVertices /\ ~m.holes
  /\ \A k \in Slots : ~m.vertexIndices[k]
  /\ \A t \in TimeSteps : ~m.vertices[t]
  /\ \/ m.edge_creases \/ m.edge_crease_weights
     \/ m.vertex_creases \/ m.vertex_crease_weights \/ m.levels

\* what calculateHalfEdges would leave in slot k if this commit ran it on the
\* current buffers, the registries holding the authored creases
BuilderResult(k) ==
  calculateHalfEdges(
    [MeshAtCommit EXCEPT
       !.edgeCreaseMap = EdgeCreaseMapOf(edge_creases, edge_crease_weights),
       !.vertexCreaseMap = VertexCreaseMapOf(vertex_creases,
                                             vertex_crease_weights)],
    k, Resize(halfEdges[k], ArrLen(vertexIndices[0])))

\* C1: a commit at which only crease or level buffers are marked changed,
\* and which therefore runs the Updater on a slot, leaves in that slot the
\* half-edges a Builder run at the same commit would have produced.
C1_UpdateEqualsRebuild ==
  [][\A k \in Slots :
       (CommitStep /\ OnlyCreaseOrLevelChanged(modified) /\ ran'[k] = "update")
         => halfEdges'[k] = BuilderResult(k)]_vars

\* the flags m say that a rebuild of slot k is triggered
RebuildTriggered(m, k) == m.vertexIndices[k] \/ m.faceVertices \/ m.holes

\* the flags m say that a crease buffer or the level buffer changed
CreaseOrLevelChanged(m) ==
  \/ m.edge_creases \/ m.edge_crease_weights
  \/ m.vertex_creases \/ m.vertex_crease_weights \/ m.levels

\* C2: at a commit, the Updater runs on every slot that is not rebuilt when
\* slot 0's index buffer, a crease buffer or the level buffer was marked
\* changed since the previous commit.
C2_UpdaterRuns ==
  committed =>
    \A k \in Slots :
      (~RebuildTriggered(startMod, k)
         /\ (startMod.vertexIndices[0] \/ CreaseOrLevelChanged(startMod)))
        => ran[k] = "update"

\* the half-edge positions of the committed layout
HalfEdgeIds == Range0(numHalfEdges)

\* the face whose contiguous range holds half-edge position i
FaceOf(i) ==
  CHOOSE f \in DOMAIN faceVertices :
    faceStartEdge[f] <= i /\ i < faceStartEdge[f] + faceVertices[f]

\* face f is listed in the hole buffer
IsHole(f) == f \in HoleSetOf(holes)

\* the undirected edge at position i, read from slot k's index buffer
EdgeKey(k, i) ==
  LET e == faceStartEdge[FaceOf(i)]
      N == faceVertices[FaceOf(i)]
      j == IF i = e + N - 1 THEN e ELSE i + 1
  IN  pair64(vertexIndices[k][i], vertexIndices[k][j])

\* the number of non-hole faces of slot k incident to the edge at position i
Incidence(k, i) ==
  Cardinality({j \in HalfEdgeIds :
                 ~IsHole(FaceOf(j)) /\ EdgeKey(k, j) = EdgeKey(k, i)})

\* slot k was built by the commit that produced this state
Built(k) == committed /\ ran[k] = "build"

\* C3 as stated: after a build of a slot, a half-edge has no opposite if and
\* only if its edge crease weight is infinite.
C3_NoOppositeIffInfinite ==
  \A k \in Slots : Built(k) =>
    \A i \in HalfEdgeIds :
      ~hasOpposite(halfEdges[k], i)
        <=> halfEdges[k][i].edge_crease_weight = inf

\* C3 amended: after a build of a slot, every half-edge of a non-hole face
\* that has no opposite has an infinite edge crease weight, and a half-edge
\* that has an opposite has an infinite weight only if the slot is in pin-all
\* mode or the half-edge follows, in its face, a half-edge on an edge shared
\* by three or more non-hole faces.
C3_BoundaryIsInfinite ==
  \A k \in Slots : Built(k) =>
    \A i \in HalfEdgeIds :
      LET he == halfEdges[k]
      IN  /\ (~IsHole(FaceOf(i)) /\ ~hasOpposite(he, i))
               => he[i].edge_crease_weight = inf
          /\ (hasOpposite(he, i) /\ he[i].edge_crease_weight = inf)
               => (subdiv_mode[k] = "PIN_ALL"
                     \/ Incidence(k, prev(he, i)) >= 3)

\* a build outside pin-all mode left a linked half-edge with an infinite
\* weight next to a boundary half-edge of a non-hole face
C3_Witness ==
  \E k \in Slots :
    /\ Built(k) /\ subdiv_mode[k] # "PIN_ALL"
    /\ \E i, j \in HalfEdgeIds :
         /\ hasOpposite(halfEdges[k], i)
         /\ halfEdges[k][i].edge_crease_weight = inf
         /\ ~hasOpposite(halfEdges[k], j) /\ ~IsHole(FaceOf(j))
         /\ Incidence(k, j) = 1

\* C4: after a build of a slot, the opposite o of a half-edge e is another
\* half-edge of the slot, o's opposite is e, and both lie on the same
\* undirected edge of the slot's index buffer.
C4_OppositeSymmetry ==
  \A k \in Slots : Built(k) =>
    \A i \in HalfEdgeIds :
      hasOpposite(halfEdges[k], i) =>
        LET o == opposite(halfEdges[k], i)
        IN  /\ o \in HalfEdgeIds /\ o # i
            /\ hasOpposite(halfEdges[k], o)
            /\ opposite(halfEdges[k], o) = i
            /\ EdgeKey(k, o) = EdgeKey(k, i)

\* a build linked two half-edges of different faces
C4_Witness ==
  \E k \in Slots :
    /\ Built(k)
    /\ \E i \in HalfEdgeIds :
         /\ hasOpposite(halfEdges[k], i)
         /\ FaceOf(opposite(halfEdges[k], i)) # FaceOf(i)

\* the half-edge reached from i by n steps of next, and of prev
RECURSIVE NextTimes(_, _, _)
NextTimes(he, i, n) ==
  IF n = 0 THEN i ELSE NextTimes(he, next(he, i), n - 1)

RECURSIVE PrevTimes(_, _, _)
PrevTimes(he, i, n) ==
  IF n = 0 THEN i ELSE PrevTimes(he, prev(he, i), n - 1)

\* C5: after a build, in every face of valence N >= 3, N steps of next and
\* N steps of prev lead from each half-edge of the face back to it, next and
\* prev undo each other, and no step leaves the face's contiguous range.
C5_FaceLoopClosure ==
  \A k \in Slots : Built(k) =>
    \A f \in DOMAIN faceVertices :
      LET N  == faceVertices[f]
          e  == faceStartEdge[f]
          he == halfEdges[k]
      IN  N >= 3 =>
            \A i \in e .. (e + N - 1) :
              /\ NextTimes(he, i, N) = i
              /\ PrevTimes(he, i, N) = i
              /\ prev(he, next(he, i)) = i
              /\ next(he, prev(he, i)) = i
              /\ \A n \in 0 .. N :
                   /\ NextTimes(he, i, n) \in e .. (e + N - 1)
                   /\ PrevTimes(he, i, n) \in e .. (e + N - 1)

\* a build laid out a quad after another face, and a triangle after it
C5_Witness ==
  \E k \in Slots :
    /\ Built(k)
    /\ \E f, g \in DOMAIN faceVertices :
         /\ faceVertices[f] = 4 /\ faceStartEdge[f] > 0
         /\ faceVertices[g] = 3 /\ faceStartEdge[g] > faceStartEdge[f]
         /\ NextTimes(halfEdges[k], faceStartEdge[f], 4) = faceStartEdge[f]

\* C6: at a commit, the Builder runs for a slot exactly when, at the start
\* of the commit, the slot's own index buffer, the valence buffer or the hole
\* buffer is marked changed; crease and level flags never decide it.
C6_BuilderIffStructural ==
  committed =>
    \A k \in Slots : ran[k] = "build" <=> RebuildTriggered(startMod, k)

\* a commit that found only a secondary slot's index buffer marked changed
\* built that slot and not slot 0
C6_Witness ==
  /\ committed
  /\ \E k \in Slots \ {0} :
       /\ startMod.vertexIndices[k] /\ ~RebuildTriggered(startMod, 0)
       /\ ran[k] = "build" /\ ran[0] # "build"

\* the flags m leave nothing to do for slot k
NothingChanged(m, k) ==
  /\ ~RebuildTriggered(m, k)
  /\ ~m.vertexIndices[0]
  /\ ~CreaseOrLevelChanged(m)

\* C7: a commit at which none of the slot's index buffer, the valence, hole,
\* slot-0 index, crease and level buffers is marked changed runs neither
\* pass on the slot and leaves its half-edge array as it was.
C7_NoOpCommit ==
  [][\A k \in Slots :
       (CommitStep /\ NothingChanged(modified, k))
         => (ran'[k] = "skip" /\ halfEdges'[k] = halfEdges[k])]_vars

\* a commit that found only a vertex buffer marked changed and skipped the
\* slots built before
C7_Witness ==
  /\ committed
  /\ \E t \in TimeSteps : startMod.vertices[t]
  /\ \A k \in Slots :
       /\ NothingChanged(startMod, k)
       /\ ran[k] = "skip"
       /\ \E i \in HalfEdgeIds : hasOpposite(halfEdges[k], i)

\* no flag the coordinator tests is set in m
AllClear(m) ==
  /\ \A k \in Slots : ~m.vertexIndices[k]
  /\ ~m.faceVertices /\ ~m.holes
  /\ ~CreaseOrLevelChanged(m)

\* C8: after every commit the modified flags of all index buffers and of the
\* valence, hole, level and crease buffers are clear, and a commit issued
\* right after a commit skips every slot and changes no half-edge.
C8_FlagsCleared ==
  /\ [](committed => AllClear(modified))
  /\ [][(committed /\ CommitStep)
          => (\A k \in Slots : ran'[k] = "skip") /\ halfEdges' = halfEdges]_vars

\* a second commit right after one that had built or updated
C8_Witness ==
  /\ committed
  /\ AllClear(startMod)
  /\ \A k \in Slots : ran[k] = "skip" /\ ArrLen(halfEdges[k]) > 0

\* C9: at a commit where the crease buffers are not marked changed, the
\* registries the Builder looks creases up in hold the mapping of the most
\* recent registry build, which is the mapping of the unchanged buffers.
\* (The Updater looks a crease up only when its buffers are marked changed.)
C9_RegistryReused ==
  [][(CommitStep /\ \E k \in Slots : ran'[k] = "build") =>
       /\ (~modified.edge_creases /\ ~modified.edge_crease_weights)
            => MeshAtCommit.edgeCreaseMap
                 = EdgeCreaseMapOf(edge_creases, edge_crease_weights)
       /\ (~modified.vertex_creases /\ ~modified.vertex_crease_weights)
            => MeshAtCommit.vertexCreaseMap
                 = VertexCreaseMapOf(vertex_creases, vertex_crease_weights)]_vars

\* C10: after a build, and after any later commit, an edge incident to
\* exactly one non-hole face of a slot has, on that face, a half-edge with
\* no opposite and an infinite edge crease weight.
C10_BoundaryInference ==
  committed =>
    \A k \in Slots : \A i \in HalfEdgeIds :
      (~IsHole(FaceOf(i)) /\ Incidence(k, i) = 1)
        => /\ ~hasOpposite(halfEdges[k], i)
           /\ halfEdges[k][i].edge_crease_weight = inf

\* an Updater commit after an edge crease change left a boundary edge that
\* carries no authored crease pinned
C10_Witness ==
  \E k \in Slots :
    /\ committed /\ ran[k] = "update"
    /\ startMod.edge_creases \/ startMod.edge_crease_weights
    /\ \E i \in HalfEdgeIds :
         /\ ~IsHole(FaceOf(i)) /\ Incidence(k, i) = 1
         /\ lookup(EdgeCreaseMapOf(edge_creases, edge_crease_weights),
                   EdgeKey(0, i), 0) = 0
         /\ halfEdges[k][i].edge_crease_weight = inf

\* half-edge i of he is tagged non-manifold with an infinite vertex weight
NonManifoldPinned(he, i) ==
  /\ he[i].vertex_type = "NON_MANIFOLD_EDGE_VERTEX"
  /\ he[i].vertex_crease_weight = inf

\* C11: after a build, every half-edge on an edge shared by three or more
\* non-hole faces, and its next half-edge, is tagged non-manifold with
\* infinite edge and vertex crease weights, and the half-edge on the edge has
\* no opposite; after later Updater commits the tag and the infinite vertex
\* crease weight are still there.
C11_NonManifoldPinning ==
  committed =>
    \A k \in Slots : \A i \in HalfEdgeIds :
      (~IsHole(FaceOf(i)) /\ Incidence(k, i) >= 3) =>
        LET he == halfEdges[k]
            n  == next(he, i)
        IN  /\ NonManifoldPinned(he, i) /\ NonManifoldPinned(he, n)
            /\ Built(k) =>
                 /\ ~hasOpposite(he, i)
                 /\ he[i].edge_crease_weight = inf
                 /\ he[n].edge_crease_weight = inf

\* an Updater commit after a vertex crease change on a slot with an edge in
\* three faces, one end of which carries an authored vertex crease
C11_Witness ==
  \E k \in Slots :
    /\ committed /\ ran[k] = "update"
    /\ startMod.vertex_creases \/ startMod.vertex_crease_weights
    /\ \E i \in HalfEdgeIds :
         /\ ~IsHole(FaceOf(i)) /\ Incidence(k, i) >= 3
         /\ \E c \in DOMAIN vertex_creases :
              /\ vertex_creases[c] = vertexIndices[0][i]
              /\ vertex_crease_weights[c] # inf

\* half-edges i and j of slot k are the only two of non-hole faces on their
\* undirected edge
SharedByTwo(k, i, j) ==
  /\ i # j
  /\ ~IsHole(FaceOf(i)) /\ ~IsHole(FaceOf(j))
  /\ EdgeKey(k, i) = EdgeKey(k, j)
  /\ Incidence(k, i) = 2

\* both run from the same vertex of the edge, that is, in the same direction
SameDirection(k, i, j) == vertexIndices[k][i] = vertexIndices[k][j]

\* C12: of exactly two half-edges sharing an undirected edge, the Builder
\* gives both an infinite edge crease weight and no opposite when they run
\* in the same direction, and links them as mutual opposites otherwise.
C12_WindingMismatch ==
  \A k \in Slots : Built(k) =>
    \A i, j \in HalfEdgeIds :
      SharedByTwo(k, i, j) =>
        LET he == halfEdges[k]
        IN  IF SameDirection(k, i, j)
            THEN /\ he[i].edge_crease_weight = inf
                 /\ he[j].edge_crease_weight = inf
                 /\ ~hasOpposite(he, i) /\ ~hasOpposite(he, j)
            ELSE /\ hasOpposite(he, i) /\ opposite(he, i) = j
                 /\ hasOpposite(he, j) /\ opposite(he, j) = i

\* a build of a slot in which two faces run along a shared edge in the same
\* direction
C12_Witness ==
  \E k \in Slots :
    /\ Built(k)
    /\ \E i, j \in HalfEdgeIds :
         SharedByTwo(k, i, j) /\ SameDirection(k, i, j)

\* half-edge i of a non-hole face of slot k lies on an edge whose only other
\* faces are hole faces, j being a half-edge of one of them
BordersHole(k, i, j) ==
  /\ ~IsHole(FaceOf(i)) /\ IsHole(FaceOf(j))
  /\ EdgeKey(k, i) = EdgeKey(k, j)
  /\ Incidence(k, i) = 1

\* C13: after every commit no half-edge of a hole face has an opposite, no
\* half-edge is linked to a half-edge of a hole face, and an edge shared by
\* a hole face and exactly one non-hole face is a boundary edge of the
\* non-hole face (no opposite, infinite edge crease weight).
C13_HolesExcluded ==
  committed =>
    \A k \in Slots : \A i \in HalfEdgeIds :
      LET he == halfEdges[k]
      IN  /\ IsHole(FaceOf(i)) => ~hasOpposite(he, i)
          /\ hasOpposite(he, i) => ~IsHole(FaceOf(opposite(he, i)))
          /\ (\E j \in HalfEdgeIds : BordersHole(k, i, j))
               => /\ ~hasOpposite(he, i)
                  /\ he[i].edge_crease_weight = inf

\* a commit with a hole face that shares an edge with one non-hole face
C13_Witness ==
  /\ committed
  /\ holeSet # {}
  /\ \E k \in Slots : \E i, j \in HalfEdgeIds : BordersHole(k, i, j)

\* a half-edge array of n entries none of whose fields a build would write:
\* linked, pinned, tagged non-manifold, of level 0
UsedHalfEdges(n) ==
  Table([i \in Range0(n) |->
    [vtx_index |-> KeyRadix - 1,
     next_half_edge_ofs |-> 0, prev_half_edge_ofs |-> 0,
     opposite_half_edge_ofs |-> IF i = 0 THEN 1 ELSE -1,
     edge_crease_weight |-> inf, vertex_crease_weight |-> inf,
     edge_level |-> 0,
     patch_type |-> "BILINEAR_PATCH",
     vertex_type |-> "NON_MANIFOLD_EDGE_VERTEX"]])

\* C14: the half-edges a Builder run leaves for the faces of a slot are those
\* a Builder run on the same inputs leaves when it starts from an array with
\* other contents: the result does not depend on the previous contents.
C14_BuilderIdempotent ==
  [][\A k \in Slots :
       (CommitStep /\ ran'[k] = "build") =>
         LET again == calculateHalfEdges(
                        MeshAtCommit, k,
                        UsedHalfEdges(ArrLen(vertexIndices[0])))
         IN  \A i \in Range0(numHalfEdges') : halfEdges'[k][i] = again[i]]_vars

\* a slot that had been built and linked was built again, over its previous
\* half-edges, after the hole buffer alone changed
C14_Witness ==
  \E k \in Slots :
    /\ Built(k)
    /\ startMod.holes
    /\ ~startMod.faceVertices /\ ~startMod.vertexIndices[k]
    /\ \E i \in HalfEdgeIds : ~hasOpposite(halfEdges[k], i)
    /\ \E i \in HalfEdgeIds : halfEdges[k][i].edge_crease_weight # inf

\* the fields of a half-edge that describe the topology
Structure(h) ==
  <<h.vtx_index, h.next_half_edge_ofs, h.prev_half_edge_ofs,
    h.opposite_half_edge_ofs, h.vertex_type>>

\* C15: a commit in which the Updater runs in a slot leaves the vertex id,
\* the next, prev and opposite links and the vertex type of every half-edge
\* of the slot as they were; only crease weights, level and patch type change.
C15_UpdaterKeepsStructure ==
  [][\A k \in Slots :
       (CommitStep /\ ran'[k] = "update") =>
         /\ DOMAIN halfEdges'[k] = DOMAIN halfEdges[k]
         /\ \A i \in DOMAIN halfEdges[k] :
              Structure(halfEdges'[k][i]) = Structure(halfEdges[k][i])]_vars

\* the Updater ran in a slot with linked half-edges after a crease buffer
\* changed, in pin-all mode
C15_Witness ==
  \E k \in Slots :
    /\ committed /\ ran[k] = "update"
    /\ subdiv_mode[k] = "PIN_ALL"
    /\ startMod.vertex_crease_weights
    /\ \E i \in HalfEdgeIds : hasOpposite(halfEdges[k], i)

\* the crease weights of the corner at position i of array he are those the
\* registries of M hold for the vertex ids of index buffer idx0 at that corner
CreasesLookedUpWith(M, idx0, he, i, edges, verts) ==
  LET j == i + he[i].next_half_edge_ofs
  IN  /\ edges => he[i].edge_crease_weight =
                     lookup(M.edgeCreaseMap, pair64(idx0[i], idx0[j]), 0)
      /\ verts => he[i].vertex_crease_weight =
                     lookup(M.vertexCreaseMap, idx0[i], 0)

\* a crease buffer is marked modified: the Updater then assigns the crease
\* weights in whatever slot it runs (slot 0's index buffer, the other trigger
\* of lines 566-567, is marked clean again by the time a later slot reads it,
\* and marked modified makes slot 0 itself run the Builder)
EdgeCreasesChanged(m) == m.edge_creases \/ m.edge_crease_weights
VertexCreasesChanged(m) == m.vertex_creases \/ m.vertex_crease_weights

\* C16: in every slot, the edge crease weight the Builder or the Updater
\* leaves on a linked half-edge and the vertex crease weight it leaves on a
\* manifold vertex (in smooth-boundary mode, where no pinning replaces them)
\* are the registry values for slot 0's vertex ids at that corner, default 0,
\* while the half-edge carries the slot's own vertex id and is linked to a
\* half-edge that starts at the slot's own end vertex.
C16_CreasesFromGeometry ==
  [][\A k \in Slots :
       (CommitStep /\ ran'[k] \in {"build", "update"}
          /\ subdiv_mode[k] = "SMOOTH_BOUNDARY") =>
         LET M == MeshAtCommit
             he == halfEdges'[k]
             regular(i) == he[i].vertex_type # "NON_MANIFOLD_EDGE_VERTEX"
         IN  \A i \in Range0(numHalfEdges') :
               /\ he[i].vtx_index = vertexIndices[k][i]
               /\ hasOpposite(he, i) =>
                    he[opposite(he, i)].vtx_index
                      = vertexIndices[k][i + he[i].next_half_edge_ofs]
               /\ CreasesLookedUpWith(
                    M, vertexIndices[0], he, i,
                    /\ hasOpposite(he, i) /\ regular(i)
                    /\ ran'[k] = "build" \/ EdgeCreasesChanged(modified),
                    /\ regular(i)
                    /\ ran'[k] = "build" \/ VertexCreasesChanged(modified))]_vars

\* the secondary slot was built with vertex ids other than slot 0's, and one
\* of its linked half-edges lies on the creased edge by its own ids but
\* reports the weight of the uncreased edge slot 0 has at that corner
C16_Witness ==
  /\ Built(1)
  /\ subdiv_mode[1] = "SMOOTH_BOUNDARY"
  /\ \E i \in HalfEdgeIds :
       LET map == EdgeCreaseMapOf(edge_creases, edge_crease_weights)
       IN  /\ hasOpposite(halfEdges[1], i)
           /\ lookup(map, EdgeKey(1, i), 0) = 2
           /\ lookup(map, EdgeKey(0, i), 0) = 0
           /\ halfEdges[1][i].edge_crease_weight = 0

\* the weight authored for the edge slot 0 has at position i, 0 when none is
Authored(i) ==
  lookup(EdgeCreaseMapOf(edge_creases, edge_crease_weights), EdgeKey(0, i), 0)

\* slot k is in smooth-boundary mode and the last commit read newly authored
\* edge creases and ran the Builder or the Updater in the slot
CreaseCommitted(k) ==
  /\ committed
  /\ subdiv_mode[k] = "SMOOTH_BOUNDARY"
  /\ ran[k] \in {"build", "update"}
  /\ EdgeCreasesChanged(startMod)

\* half-edges i and j of slot k lie on an edge of exactly two non-hole faces
\* that run along it in opposite directions
ConsistentPair(k, i, j) == SharedByTwo(k, i, j) /\ ~SameDirection(k, i, j)

Referenced(fv, idx) == Range0(Min2(SumTo(fv, ArrLen(fv)), ArrLen(idx)))

\* the index buffer covers all faces and refers to vertex ids below n only
IndicesInRange(fv, idx, n) ==
  /\ SumTo(fv, ArrLen(fv)) <= ArrLen(idx)
  /\ \A j \in Referenced(fv, idx) : idx[j] < n

\* C18: a call of Topology::verify(n) returns false when a referenced vertex
\* id is n or more or the index buffer is shorter than the sum of the
\* valences, and true otherwise; a call of the mesh's verify returns false
\* whenever slot 0 fails against the vertex count or the slot bound to a user
\* buffer fails against that buffer's size; neither call changes the mesh.
C18_VerifyResult ==
  [][verified' # verified =>
       /\ UNCHANGED unverified
       /\ verified'.call = "topology" =>
            verified'.result =
              IndicesInRange(faceVertices, vertexIndices[verified'.slot],
                             verified'.numVertices)
       /\ (/\ verified'.call = "mesh"
           /\ \/ ~IndicesInRange(faceVertices, vertexIndices[0],
                                 numVertices(vertexSizes))
              \/ \E b \in DOMAIN userbuffers :
                   ~IndicesInRange(faceVertices,
                                   vertexIndices[userbuffers[b].userdata],
                                   userbuffers[b].size))
            => verified'.result = FALSE]_vars

\* the mesh's verify returned false for a mesh whose slot 0 is in range of the
\* vertex buffer but whose second user buffer is too small for its slot
C18_Witness ==
  /\ verified.call = "mesh" /\ verified.result = FALSE
  /\ IndicesInRange(faceVertices, vertexIndices[0], numVertices(vertexSizes))
  /\ ArrLen(userbuffers) = 2
  /\ IndicesInRange(faceVertices, vertexIndices[0], userbuffers[0].size)
  /\ ~IndicesInRange(faceVertices, vertexIndices[1], userbuffers[1].size)

\* start is the exclusive running sum of the valences fv and total their sum
IsLayoutOf(fv, start, total) ==
  /\ DOMAIN start = DOMAIN fv
  /\ \A f \in DOMAIN fv :
       start[f] = IF f = 0 THEN 0 ELSE start[f - 1] + fv[f - 1]
  /\ total = IF DOMAIN fv = {} THEN 0
             ELSE start[ArrLen(fv) - 1] + fv[ArrLen(fv) - 1]

\* C19: a commit that finds the valence buffer marked changed leaves
\* faceStartEdge[f] at the sum of the valences of the faces before f and
\* numHalfEdges at the sum of all valences; any other commit leaves both as
\* they were.
C19_LayoutIsPrefixSum ==
  [][CommitStep =>
       IF modified.faceVertices
       THEN IsLayoutOf(faceVertices, faceStartEdge', numHalfEdges')
       ELSE UNCHANGED <<faceStartEdge, numHalfEdges>>]_vars

\* a commit laid out a face buffer that was rewritten after an earlier commit
C19_Witness ==
  /\ committed
  /\ startMod.faceVertices /\ ~startMod.holes
  /\ IsLayoutOf(faceVertices, faceStartEdge, numHalfEdges)
  /\ numHalfEdges = 9

\* C20: setSubdivisionMode with a topology id that is no slot ends with an
\* error and leaves every slot's mode, every modified flag and commitCounter
\* as they were; with the slot's current mode it raises no error, leaves
\* them as they were too, and the pass a commit would take in each slot is
\* the same after the call as before it (none, right after a commit).
C20_SetSubdivisionModeRejects ==
  [][\A topologyID \in TopologyIDs, mode \in Modes :
       SetSubdivisionMode(topologyID, mode) =>
         /\ topologyID \notin Slots =>
              /\ error' = "RTC_INVALID_OPERATION"
              /\ UNCHANGED <<subdiv_mode, modified, commitCounter>>
         /\ (topologyID \in Slots /\ subdiv_mode[topologyID] = mode) =>
              /\ error' = "RTC_NO_ERROR"
              /\ UNCHANGED <<subdiv_mode, modified, commitCounter>>
              /\ \A k \in Slots :
                   /\ PassOf(MeshAtCommit, k)' = PassOf(MeshAtCommit, k)
                   /\ committed => PassOf(MeshAtCommit, k)' = "skip"]_vars

\* a call with topology id 2 was rejected right after a commit that had built
\* the mesh, and nothing is marked modified
C20_Witness ==
  /\ error = "RTC_INVALID_OPERATION"
  /\ ~committed
  /\ ran[0] = "build"
  /\ AllClear(modified)

\* every task of the link pass has left its loop
LinkDone ==
  /\ DOMAIN tasks # {}
  /\ \A rb \in DOMAIN tasks : tasks[rb].pc = "done"

\* the first and the last position of the maximal run of equal keys around p
RunFirst(p) ==
  CHOOSE q \in 0 .. p :
    /\ \A r \in q .. p : halfEdges1[r].key = halfEdges1[p].key
    /\ q = 0 \/ halfEdges1[q - 1].key # halfEdges1[p].key
RunLast(p) ==
  CHOOSE q \in p .. (numHalfEdges - 1) :
    /\ \A r \in p .. q : halfEdges1[r].key = halfEdges1[p].key
    /\ q = numHalfEdges - 1 \/ halfEdges1[q + 1].key # halfEdges1[p].key

\* the task whose range holds position p
TaskOf(p) == CHOOSE rb \in DOMAIN tasks : rb <= p /\ p < tasks[rb].end

\* the one record of the run around p, processed whole by its owner
OwnRun(p) ==
  [task |-> TaskOf(RunFirst(p)), e |-> RunFirst(p),
   N |-> RunLast(p) - RunFirst(p) + 1]

\* C21: in the link pass, for every split of the sorted array into ranges,
\* every maximal run of equal non-hole keys is processed exactly once, whole,
\* by the task whose range holds the first entry of the run, and the entries
\* with the hole key are processed by no task.
C21_RunsProcessedOnce ==
  \A p \in DOMAIN processed :
    IF halfEdges1[p].key = HoleKey
    THEN processed[p] = <<>>
    ELSE /\ processed[p] \in {<<>>, <<OwnRun(p)>>}
         /\ LinkDone => processed[p] = <<OwnRun(p)>>

\* the pass is over for a split in which a run of a real key covers a whole
\* range and ends inside the next one, with hole entries at the end
C21_Witness ==
  /\ LinkDone
  /\ \E p \in DOMAIN halfEdges1 : halfEdges1[p].key = HoleKey
  /\ \E rb \in DOMAIN tasks :
       /\ rb > 0
       /\ halfEdges1[rb].key # HoleKey
       /\ RunFirst(rb) < rb
       /\ RunLast(rb) >= tasks[rb].end
       /\ RunLast(rb) + 1 < numHalfEdges
       /\ processed[RunLast(rb) + 1] # <<>>

\* the half-edges of slot 0 as the first loop of the Builder leaves them
CreatedHalfEdges ==
  CreateHalfEdges(MeshInBuild, 0,
                  Resize(Arr(<<>>), ArrLen(vertexIndices[0])), 0)

\* the half-edges of slot 0 after a link pass run as one task
LinkedSerially ==
  LinkHalfEdges(CreatedHalfEdges, KeysOf(halfEdges1), SortedOf(halfEdges1),
                0, numHalfEdges)

\* some non-manifold half-edge has its next half-edge in a run of another task
PinsAcrossTasks ==
  \E p, q \in DOMAIN halfEdges1 :
    /\ halfEdges1[p].key # HoleKey
    /\ RunLast(p) - RunFirst(p) >= 2
    /\ halfEdges1[q].edge = next(halfEdges[0], halfEdges1[p].edge)
    /\ halfEdges1[q].key # HoleKey
    /\ TaskOf(RunFirst(q)) # TaskOf(RunFirst(p))

\* C22: whatever the order in which the tasks of the link pass and their
\* steps are run, every field of every half-edge holds either the value it
\* was created with or the value a one-task link pass leaves, and when all
\* tasks are done the half-edge array is the one a one-task pass leaves.
C22_LinkOrderIndependent ==
  LET created == CreatedHalfEdges
      serial == LinkedSerially
      he == halfEdges[0]
  IN  DOMAIN processed # {} =>
        /\ \A i \in DOMAIN he :
             /\ he[i].opposite_half_edge_ofs \in
                  {created[i].opposite_half_edge_ofs,
                   serial[i].opposite_half_edge_ofs}
             /\ he[i].edge_crease_weight \in
                  {created[i].edge_crease_weight, serial[i].edge_crease_weight}
             /\ he[i].vertex_crease_weight \in
                  {created[i].vertex_crease_weight,
                   serial[i].vertex_crease_weight}
             /\ he[i].vertex_type \in
                  {created[i].vertex_type, serial[i].vertex_type}
             /\ [he[i] EXCEPT !.opposite_half_edge_ofs = 0,
                              !.edge_crease_weight = 0,
                              !.vertex_crease_weight = 0,
                              !.vertex_type = "REGULAR_VERTEX"]
                  = [created[i] EXCEPT !.opposite_half_edge_ofs = 0,
                                       !.edge_crease_weight = 0,
                                       !.vertex_crease_weight = 0,
                                       !.vertex_type = "REGULAR_VERTEX"]
        /\ LinkDone => he = serial

\* the pass is over on a mesh where a non-manifold run of one task wrote the
\* next half-edge, itself in a run of another task
C22_Witness ==
  /\ LinkDone
  /\ Cardinality(DOMAIN tasks) > 1
  /\ PinsAcrossTasks

\* C23: an iteration of the Updater's parallel loop for index i writes
\* half-edge i of the slot being updated and nothing else: no other half-edge
\* of the slot, no half-edge of another slot (slot 0 when a secondary slot is
\* updated), and neither the crease nor the hole registries.
C23_UpdaterWritesOwnHalfEdge ==
  [][\A i \in Range0(numHalfEdges) :
       ("todo" \in DOMAIN tasks /\ tasks'.slot = tasks.slot
          /\ i \in tasks.todo /\ i \notin tasks'.todo) =>
         /\ \A j \in DOMAIN halfEdges[tasks.slot] \ {i} :
              halfEdges'[tasks.slot][j] = halfEdges[tasks.slot][j]
         /\ \A k \in Slots \ {tasks.slot} : halfEdges'[k] = halfEdges[k]
         /\ edgeCreaseMap' = edgeCreaseMap
         /\ vertexCreaseMap' = vertexCreaseMap
         /\ holeSet' = holeSet]_vars

\* the Updater of the secondary slot has given one of the two half-edges at
\* vertex 1 its new vertex crease weight while the other still waits
C23_Witness ==
  /\ "todo" \in DOMAIN tasks
  /\ tasks.slot = 1
  /\ modified.vertex_crease_weights
  /\ 4 \in tasks.todo
  /\ 1 \notin tasks.todo
  /\ halfEdges[0][1].vtx_index = 1
  /\ halfEdges[0][4].vtx_index = 1
  /\ halfEdges[1][1].vertex_crease_weight = 3
  /\ halfEdges[1][4].vertex_crease_weight = 0

\* C24: once the Builder of a slot has run in pin-all mode and the slot is
\* still in that mode, after every commit every half-edge of the slot has
\* infinite edge crease weight and infinite vertex crease weight, whichever
\* crease or level buffers were changed before the commit.
C24_PinAllStaysPinned ==
  committed =>
    \A k \in Slots :
      (subdiv_mode[k] = "PIN_ALL" /\ builtMode[k] = "PIN_ALL") =>
        \A i \in HalfEdgeIds :
          /\ halfEdges[k][i].edge_crease_weight = inf
          /\ halfEdges[k][i].vertex_crease_weight = inf

\* the flags at the start of a commit are those setSubdivisionMode leaves
\* when nothing else was changed
OnlyModeChanged(m) ==
  /\ m.vertex_crease_weights
  /\ ~m.faceVertices /\ ~m.holes /\ ~m.levels
  /\ ~m.edge_creases /\ ~m.edge_crease_weights /\ ~m.vertex_creases
  /\ \A k \in Slots : ~m.vertexIndices[k]
  /\ \A t \in TimeSteps : ~m.vertices[t]

\* C25: a commit of a mesh in a dynamic scene whose only change is that
\* setSubdivisionMode gave slot k another mode than the one it was built
\* under leaves, in every half-edge of the slot, the edge and vertex crease
\* weights a Builder run under the new mode on the same buffers produces.
C25_ModeChangeEqualsRebuild ==
  [][\A k \in Slots :
       (CommitStep /\ scene = "dynamic" /\ OnlyModeChanged(modified)
          /\ builtMode[k] # subdiv_mode[k]) =>
         \A i \in HalfEdgeIds :
           /\ halfEdges'[k][i].edge_crease_weight
                = BuilderResult(k)[i].edge_crease_weight
           /\ halfEdges'[k][i].vertex_crease_weight
                = BuilderResult(k)[i].vertex_crease_weight]_vars

\* C26: after every commit, the face-invalid flag of face f and time step t
\* is set exactly when f is listed in the hole buffer or a vertex of f is not
\* finite in the vertex buffer of time step t, also when the commit found only
\* a vertex buffer marked changed.
C26_InvalidFaceIsCurrent ==
  committed =>
    \A f \in DOMAIN faceVertices : \A t \in TimeSteps :
      invalid_face[f][t] <=>
        (IsHole(f) \/ ~valid(halfEdges[0], faceStartEdge[f], vertices[t]))

\* the step sets the modified flag of some buffer other than the level buffer
MarksNonLevelBuffer ==
  \/ ~modified.faceVertices /\ modified'.faceVertices
  \/ ~modified.holes /\ modified'.holes
  \/ ~modified.edge_creases /\ modified'.edge_creases
  \/ ~modified.edge_crease_weights /\ modified'.edge_crease_weights
  \/ ~modified.vertex_creases /\ modified'.vertex_creases
  \/ ~modified.vertex_crease_weights /\ modified'.vertex_crease_weights
  \/ \E t \in TimeSteps : ~modified.vertices[t] /\ modified'.vertices[t]
  \/ \E k \in Slots : ~modified.vertexIndices[k] /\ modified'.vertexIndices[k]

\* C27: commitCounter never decreases, and every API call that marks a buffer
\* other than the level buffer as modified (updateBuffer, update, a
\* setSubdivisionMode that changes the mode) makes it strictly larger.
C27_CounterInvalidatesCache ==
  [][/\ commitCounter' >= commitCounter
     /\ MarksNonLevelBuffer => commitCounter' > commitCounter]_vars

\* the flags m say that the index buffer of slot k changed and nothing else
OnlyIndexChanged(m, k) ==
  /\ m.vertexIndices[k]
  /\ \A j \in Slots \ {k} : ~m.vertexIndices[j]
  /\ ~m.faceVertices /\ ~m.holes /\ ~m.levels
  /\ ~m.edge_creases /\ ~m.edge_crease_weights
  /\ ~m.vertex_creases /\ ~m.vertex_crease_weights
  /\ \A t \in TimeSteps : ~m.vertices[t]

\* C28: a commit that finds only the index buffer of a secondary slot k
\* marked changed runs the Builder on slot k and no pass on any other slot,
\* and leaves the half-edges of every other slot, the face-index layout, the
\* crease and hole registries and the face-invalid flags as they were.
C28_SecondaryRebuildOnly ==
  [][\A k \in Slots \ {0} :
       (CommitStep /\ OnlyIndexChanged(modified, k)) =>
         /\ ran'[k] = "build"
         /\ \A j \in Slots \ {k} :
              ran'[j] = "skip" /\ halfEdges'[j] = halfEdges[j]
         /\ faceStartEdge' = faceStartEdge
         /\ numHalfEdges' = numHalfEdges
         /\ edgeCreaseMap' = edgeCreaseMap
         /\ vertexCreaseMap' = vertexCreaseMap
         /\ holeSet' = holeSet
         /\ invalid_face' = invalid_face]_vars

\* a commit in a dynamic scene rebuilt the secondary slot alone, on an index
\* buffer that differs from slot 0's, with a crease in the registry
C28_Witness ==
  /\ committed
  /\ OnlyIndexChanged(startMod, 1)
  /\ ran[1] = "build"
  /\ ran[0] = "skip"
  /\ edgeCreaseMap # {}
  /\ \E i \in HalfEdgeIds :
       halfEdges[1][i].vtx_index # halfEdges[0][i].vtx_index

====
